---- MODULE Spec2Model ----
(***************************************************************************)
(* Admin service of simple-script-distribution: the catalog of script      *)
(* entries (config.Scripts), its persisted copy (config.yaml), the files   *)
(* and links under the scripts root, the Caddyfile with its redirect       *)
(* blocks, and the generated landing page (index.html).                    *)
(*                                                                         *)
(* Strings are sequences of tokens.  A script name is a sequence of        *)
(* one-character tokens; a URL is a scheme token followed by the rest; the *)
(* Caddyfile is a sequence of the tokens its editor searches for and       *)
(* writes.  A filesystem path is a sequence of path components.            *)
(***************************************************************************)
EXTENDS Integers, Sequences, FiniteSets, TLC

VARIABLES
    config,   \* config.Scripts, the catalog in memory
    disk,     \* the entries config.yaml holds (saveConfig writes, loadConfig reads)
    fs,       \* the files, directories and links the handlers create and remove
    caddy,    \* the text of /app/Caddyfile
    index,    \* the text of index.html under the scripts root
    resp,     \* the response of the last request and what it did
    ops,      \* requests served so far
    faulted,  \* some request so far ran with a failing I/O call
    request,  \* the last request as it arrived, where a specification records it
    sessions, \* session store: which sessions carry authenticated = true
    inflight  \* the requests being handled concurrently, each at its position

vars == <<config, disk, fs, caddy, index, resp, ops, faulted, request, sessions, inflight>>

----------------------------------------------------------------------------
(* Bounds *)

\* how many requests a run of the model serves
MaxOps == 2

----------------------------------------------------------------------------
(* Generic string helpers (Go strings package) *)

\* strings.ToLower on one character
ToLowerChar(c) == IF c = "A" THEN "a" ELSE IF c = "B" THEN "b" ELSE c

\* strings.ToLower
ToLower(s) == [i \in 1..Len(s) |-> ToLowerChar(s[i])]

\* strings.ReplaceAll(s, old, new) for a one-character old
ReplaceAll(s, old, new) == [i \in 1..Len(s) |-> IF s[i] = old THEN new ELSE s[i]]

\* strings.HasPrefix
HasPrefix(s, p) == Len(s) >= Len(p) /\ SubSeq(s, 1, Len(p)) = p

\* strings.Index: position of the first occurrence of pat in s, counted from
\* 1; 0 stands for Go's -1
Index(s, pat) ==
    LET hits == {i \in 1..(Len(s) - Len(pat) + 1) : SubSeq(s, i, i + Len(pat) - 1) = pat}
    IN  IF hits = {} THEN 0 ELSE CHOOSE i \in hits : \A j \in hits : i <= j

\* a sanitisation that leaves dots in the name
SanitizeNameKeepsDots(name) ==
    ReplaceAll(ToLower(ReplaceAll(name, " ", "_")), "-", "_")

\* the name sanitisation of createScriptAPI
SanitizeName(name) ==
    ReplaceAll(ReplaceAll(ToLower(ReplaceAll(name, " ", "_")), "-", "_"), ".", "_")

----------------------------------------------------------------------------
(* Request inputs *)

\* names a request may carry (body of create, :name of update and delete)
RawNames == { <<>>, <<"a">>, <<"A">>, <<"a", "-">>, <<"a", ".">>, <<"a", " ">> }

\* names update and delete are addressed to: the two names create can store
\* and one it cannot
ParamNames == { <<"a">>, <<"a", "_">>, <<"A">> }


DefaultIcon == "scroll"

Icons == { "", "i1" }

\* values of the type field of an update: absent, the two kinds, and a
\* value that is neither
Types == { "", "local", "redirect", "x" }


scriptsPath == << <<"/app/scripts">> >>

\* a script file the operator already has under the scripts root
ExistingFile == scriptsPath \o << <<"ext", ".sh">> >>

\* an executable of the operator under the scripts root whose file name has
\* no extension: the file browser offers it, and a sanitized name can spell it
NamedFile == scriptsPath \o << <<"a", "_">> >>

\* a file outside the scripts root
OutsideFile == << <<"/etc">>, <<"passwd">> >>

ScriptPaths == { <<>>, ExistingFile, NamedFile, OutsideFile }

----------------------------------------------------------------------------
(* Filesystem: a function from the paths that exist to what is there *)

\* the content createScriptAPI writes into a new script file: the shebang,
\* the description in a comment and the name as the request spelled it
\* (the timestamp line is left out)
DefaultContent(description, originalName) ==
    [shebang |-> TRUE, desc |-> description, name |-> originalName]

Dir == [k |-> "dir", to |-> <<>>, c |-> DefaultContent("", <<>>)]

File(content) == [k |-> "file", to |-> <<>>, c |-> content]

Link(target) == [k |-> "symlink", to |-> target, c |-> DefaultContent("", <<>>)]

Parent(p) == SubSeq(p, 1, Len(p) - 1)

IsDir(f, p) == p \in DOMAIN f /\ f[p].k = "dir"

Children(f, p) == {q \in DOMAIN f : Len(q) > Len(p) /\ SubSeq(q, 1, Len(p)) = p}

Put(f, p, o) == [q \in DOMAIN f \cup {p} |-> IF q = p THEN o ELSE f[q]]

\* os.Remove: removes a file, a link or an empty directory; the callers
\* ignore its error
Remove(f, p) ==
    IF p \in DOMAIN f /\ Children(f, p) = {}
    THEN [q \in DOMAIN f \ {p} |-> f[q]]
    ELSE f

\* os.RemoveAll: removes the path and everything below it, never following
\* a link
RemoveAll(f, p) == [q \in DOMAIN f \ ({p} \cup Children(f, p)) |-> f[q]]

\* os.Symlink(oldname, newname): fails when newname exists or its parent is
\* not a directory; the target need not exist
SymlinkOk(f, newname, failed) ==
    ~failed /\ newname \notin DOMAIN f /\ IsDir(f, Parent(newname))

Symlink(f, oldname, newname) == Put(f, newname, Link(oldname))

\* os.MkdirAll: the directory is there afterwards unless the call failed or
\* the path is taken by something else; the callers ignore its error
MkdirAll(f, p, failed) ==
    IF failed \/ p \in DOMAIN f \/ ~IsDir(f, Parent(p)) THEN f ELSE Put(f, p, Dir)

\* os.WriteFile: needs the parent directory, and the path must not be a
\* directory
WriteFileOk(f, p, failed) ==
    ~failed /\ IsDir(f, Parent(p)) /\ ~IsDir(f, p)

WriteFile(f, p, content) == Put(f, p, File(content))

\* what opening the path for reading finds: follows links (two levels are
\* enough for the links the service creates)
Resolve(f, p) ==
    IF p \notin DOMAIN f THEN p
    ELSE IF f[p].k # "symlink" THEN p
    ELSE LET q == f[p].to
         IN  IF q \in DOMAIN f /\ f[q].k = "symlink" THEN f[q].to ELSE q

Readable(f, p) == Resolve(f, p) \in DOMAIN f /\ f[Resolve(f, p)].k = "file"

\* filepath.Join(scriptsPath, name): the published route path of an entry
symlinkPath(name) == scriptsPath \o <<name>>

\* filepath.Join(scriptsPath, name+"_dir")
scriptDir(name) == scriptsPath \o <<name \o <<"_dir">>>>

\* filepath.Join(scriptDir, name+".sh")
scriptFile(name) == scriptDir(name) \o <<name \o <<".sh">>>>

----------------------------------------------------------------------------
(* Caddyfile: the tokens the route block editor searches for and writes *)

Tok(t) == [t |-> t, n |-> <<>>, u |-> <<>>]

\* "\thandle /<name> {"
HandleOpen(scriptName) == [t |-> "handle", n |-> scriptName, u |-> <<>>]

\* "\t\tredir <url> 302"
Redir(redirectURL) == [t |-> "redir", n |-> <<>>, u |-> redirectURL]

\* "\n"
NL == Tok("nl")

\* "\t"
TAB == Tok("tab")

\* "}\n"
CloseNL == Tok("close")

\* "# Handle other script requests with clean URLs"
Anchor == Tok("anchor")

\* "\thandle /%s {\n\t\tredir %s 302\n\t}\n\n".  A target is a scheme, a
\* rest, and after these any text the editor searches for that the target
\* carries; that text lies in the file as the tokens it is made of.
redirectBlock(scriptName, redirectURL) ==
    IF Len(redirectURL) <= 2
    THEN <<HandleOpen(scriptName), NL, Redir(redirectURL), NL, TAB, CloseNL, NL>>
    ELSE <<HandleOpen(scriptName), NL, Redir(SubSeq(redirectURL, 1, 2))>>
           \o SubSeq(redirectURL, 3, Len(redirectURL))
           \o <<NL, TAB, CloseNL, NL>>

\* the Caddyfile as deployed: the site block opens, the anchor comment, the
\* catch-all handler, the site block closes
CaddyfileWithAnchor == <<Tok("site"), NL, Anchor, NL, Tok("catchall"), NL, CloseNL>>

\* the Caddyfile of an operator who dropped the anchor comment
CaddyfileWithoutAnchor == <<Tok("site"), NL, Tok("catchall"), NL, CloseNL>>

\* a block removal that looks for the opening marker of any name
CutBlockAnyName(cad, scriptName) ==
    LET opens == {i \in 1..Len(cad) : cad[i].t = "handle"}
        startIdx == IF opens = {} THEN 0 ELSE CHOOSE i \in opens : \A j \in opens : i <= j
    IN  IF startIdx = 0 THEN cad
        ELSE LET endIdx == Index(SubSeq(cad, startIdx, Len(cad)), <<CloseNL>>)
             IN  IF endIdx = 0 THEN cad
                 ELSE SubSeq(cad, 1, startIdx - 1) \o SubSeq(cad, startIdx + endIdx, Len(cad))

\* the block removal shared by updateCaddyfileRedirect and
\* removeCaddyfileRedirect: cut from the opening marker of the name through
\* the first "}\n" after it
CutBlock(cad, scriptName) ==
    LET startIdx == Index(cad, <<HandleOpen(scriptName)>>)
    IN  IF startIdx = 0 THEN cad
        ELSE LET endIdx == Index(SubSeq(cad, startIdx, Len(cad)), <<CloseNL>>)
             IN  IF endIdx = 0 THEN cad
                 ELSE SubSeq(cad, 1, startIdx - 1) \o SubSeq(cad, startIdx + endIdx, Len(cad))

\* reloadCaddy: reads the Caddyfile and posts it to the proxy's admin API.
\* attempts counts the posts that were sent.
reloadCaddy(F) ==
    IF "caddyRead" \in F THEN [err |-> TRUE, attempts |-> 0]
    ELSE [err |-> "reload" \in F, attempts |-> 1]

\* an installation that always writes the new block at the end of the file
updateCaddyfileRedirectAppends(cad, scriptName, redirectURL, F) ==
    IF "caddyRead" \in F THEN [caddy |-> cad, err |-> TRUE, attempts |-> 0]
    ELSE LET cut == CutBlock(cad, scriptName)
             new == cut \o redirectBlock(scriptName, redirectURL)
         IN  IF "caddyWrite" \in F THEN [caddy |-> cad, err |-> TRUE, attempts |-> 0]
             ELSE [caddy |-> new, err |-> reloadCaddy(F).err,
                   attempts |-> reloadCaddy(F).attempts]

\* updateCaddyfileRedirect: drop the old block of the name, insert the new
\* block before the anchor (at the end without one), write, reload
updateCaddyfileRedirect(cad, scriptName, redirectURL, F) ==
    IF "caddyRead" \in F THEN [caddy |-> cad, err |-> TRUE, attempts |-> 0]
    ELSE LET cut == CutBlock(cad, scriptName)
             found == Index(cut, <<Anchor>>)
             insertPoint == IF found = 0 THEN Len(cut) + 1 ELSE found
             new == SubSeq(cut, 1, insertPoint - 1)
                      \o redirectBlock(scriptName, redirectURL)
                      \o SubSeq(cut, insertPoint, Len(cut))
         IN  IF "caddyWrite" \in F THEN [caddy |-> cad, err |-> TRUE, attempts |-> 0]
             ELSE [caddy |-> new, err |-> reloadCaddy(F).err,
                   attempts |-> reloadCaddy(F).attempts]

\* removeCaddyfileRedirect: drop the block of the name and write; no reload
removeCaddyfileRedirect(cad, scriptName, F) ==
    IF "caddyRead" \in F THEN [caddy |-> cad, err |-> TRUE]
    ELSE IF "caddyWrite" \in F THEN [caddy |-> cad, err |-> TRUE]
    ELSE [caddy |-> CutBlock(cad, scriptName), err |-> FALSE]

\* number of route blocks for a name in a Caddyfile
Blocks(cad, scriptName) ==
    Cardinality({i \in 1..Len(cad) : cad[i] = HandleOpen(scriptName)})

----------------------------------------------------------------------------
(* Landing page *)

\* a page generator that leaves the last entry out
generateIndexHTMLDropsLast(scripts) ==
    [template |-> "Script Server",
     rows |-> [i \in 1..(Len(scripts) - 1) |->
                 [dataScript |-> scripts[i].Name, emoji |-> scripts[i].Icon,
                  label |-> scripts[i].Name, text |-> scripts[i].Description]]]

\* generateIndexHTML: the fixed template around one row per entry, in
\* catalog order, each row made of the name, the icon, the name again and
\* the description
generateIndexHTML(scripts) ==
    [template |-> "Script Server",
     rows |-> [i \in 1..Len(scripts) |->
                 [dataScript |-> scripts[i].Name, emoji |-> scripts[i].Icon,
                  label |-> scripts[i].Name, text |-> scripts[i].Description]]]

\* updateIndexPageWithCurrentScripts: what index.html holds afterwards
updateIndexPageWithCurrentScripts(scripts, idx, F) ==
    IF "index" \in F THEN idx ELSE generateIndexHTML(scripts)

----------------------------------------------------------------------------
(* Catalog *)

\* saveConfig: what config.yaml holds afterwards
saveConfig(scripts, dsk, F) == IF "save" \in F THEN dsk ELSE scripts

\* position of the first entry with the name, 0 when there is none
Find(scripts, name) ==
    LET hits == {i \in 1..Len(scripts) : scripts[i].Name = name}
    IN  IF hits = {} THEN 0 ELSE CHOOSE i \in hits : \A j \in hits : i <= j

\* the duplicate check with a loop that stops one entry short
alreadyExistsSkipsLast(scripts, name) ==
    \E i \in 1..(Len(scripts) - 1) : scripts[i].Name = name

\* the loop "Check if script already exists" of createScriptAPI
alreadyExists(scripts, name) == \E i \in 1..Len(scripts) : scripts[i].Name = name

\* append(config.Scripts[:i], config.Scripts[i+1:]...)
RemoveAt(scripts, i) == SubSeq(scripts, 1, i - 1) \o SubSeq(scripts, i + 1, Len(scripts))

\* what a handler leaves behind: the five stores and the response
Return(cfg, dsk, f, cad, idx, r) ==
    /\ ops' = ops + 1
    /\ config' = cfg
    /\ disk' = dsk
    /\ fs' = f
    /\ caddy' = cad
    /\ index' = idx
    /\ resp' = r
    /\ UNCHANGED <<sessions, inflight>>

\* the response and what the request did on the way: the entry's type
\* before the request, the reloads posted, whether a posted reload failed
Response(op, status, err, name, oldType, reloads, F) ==
    [op |-> op, status |-> status, err |-> err, name |-> name,
     oldType |-> oldType, reloads |-> reloads,
     reloadFailed |-> (reloads > 0 /\ "reload" \in F)]

----------------------------------------------------------------------------
(* Handlers *)

\* the defaults createScriptAPI fills in after the duplicate check
WithDefaults(script, name) ==
    [script EXCEPT !.Name = name,
                   !.Type = IF @ = "" THEN "local" ELSE @,
                   !.Icon = IF @ = "" THEN DefaultIcon ELSE @,
                   !.Path = IF @ = <<>> THEN name ELSE @]

\* createScriptAPI from the append to the end: add the entry, save, refresh
\* the landing page
CreateCommit(script, f, cad, reloads, F) ==
    LET cfg == Append(config, script)
    IN  IF "save" \in F
        THEN Return(cfg, disk, f, cad, index,
                    Response("create", 500, "save", script.Name, "", reloads, F))
        ELSE Return(cfg, cfg, f, cad,
                    updateIndexPageWithCurrentScripts(cfg, index, F),
                    Response("create", 200, "", script.Name, "", reloads, F))

\* a local branch that writes the stored name into the default script
CreateLocalWritesStoredName(script, originalName, F) ==
    LET path == symlinkPath(script.Name)
    IN  IF script.ScriptPath # <<>>
        THEN LET f1 == Remove(fs, path)
             IN  IF ~SymlinkOk(f1, path, "symlink" \in F)
                 THEN Return(config, disk, f1, caddy, index,
                             Response("create", 500, "link", script.Name, "", 0, F))
                 ELSE CreateCommit(script, Symlink(f1, script.ScriptPath, path), caddy, 0, F)
        ELSE LET f1 == MkdirAll(fs, scriptDir(script.Name), "mkdir" \in F)
                 file == scriptFile(script.Name)
             IN  IF ~WriteFileOk(f1, file, "write" \in F)
                 THEN Return(config, disk, f1, caddy, index,
                             Response("create", 500, "file", script.Name, "", 0, F))
                 ELSE LET f2 == WriteFile(f1, file, DefaultContent(script.Description, script.Name))
                          f3 == Remove(f2, path)
                      IN  IF ~SymlinkOk(f3, path, "symlink" \in F)
                          THEN Return(config, disk, f3, caddy, index,
                                      Response("create", 500, "link", script.Name, "", 0, F))
                          ELSE CreateCommit([script EXCEPT !.ScriptPath = file],
                                            Symlink(f3, file, path), caddy, 0, F)

\* createScriptAPI for a local entry: link the selected file, or write a
\* default script into <name>_dir and link that
CreateLocal(script, originalName, F) ==
    LET path == symlinkPath(script.Name)
    IN  IF script.ScriptPath # <<>>
        THEN LET f1 == Remove(fs, path)
             IN  IF ~SymlinkOk(f1, path, "symlink" \in F)
                 THEN Return(config, disk, f1, caddy, index,
                             Response("create", 500, "link", script.Name, "", 0, F))
                 ELSE CreateCommit(script, Symlink(f1, script.ScriptPath, path), caddy, 0, F)
        ELSE LET f1 == MkdirAll(fs, scriptDir(script.Name), "mkdir" \in F)
                 file == scriptFile(script.Name)
             IN  IF ~WriteFileOk(f1, file, "write" \in F)
                 THEN Return(config, disk, f1, caddy, index,
                             Response("create", 500, "file", script.Name, "", 0, F))
                 ELSE LET f2 == WriteFile(f1, file, DefaultContent(script.Description, originalName))
                          f3 == Remove(f2, path)
                      IN  IF ~SymlinkOk(f3, path, "symlink" \in F)
                          THEN Return(config, disk, f3, caddy, index,
                                      Response("create", 500, "link", script.Name, "", 0, F))
                          ELSE CreateCommit([script EXCEPT !.ScriptPath = file],
                                            Symlink(f3, file, path), caddy, 0, F)

\* the redirect branch with the order of the earlier revision of the
\* handler: the entry is appended and saved before the route block is tried
CreateRedirectSavesFirst(script, F) ==
    LET r == updateCaddyfileRedirect(caddy, script.Name, script.RedirectURL, F)
        cfg == Append(config, script)
    IN  IF r.err
        THEN Return(cfg, saveConfig(cfg, disk, F), fs, r.caddy, index,
                    Response("create", 500, "redirect", script.Name, "", r.attempts, F))
        ELSE CreateCommit(script, fs, r.caddy, r.attempts, F)

\* createScriptAPI for a redirect entry: install the route block
CreateRedirect(script, F) ==
    LET r == updateCaddyfileRedirect(caddy, script.Name, script.RedirectURL, F)
    IN  IF r.err
        THEN Return(config, disk, fs, r.caddy, index,
                    Response("create", 500, "redirect", script.Name, "", r.attempts, F))
        ELSE CreateCommit(script, fs, r.caddy, r.attempts, F)

\* the checks of createScriptAPI, in its order: required fields, duplicate
\* of the sanitized name, target of a redirect.  status 0: accepted.
createRejection(body) ==
    IF body.Name = <<>> \/ body.Description = ""
    THEN [status |-> 400, err |-> "required", name |-> body.Name]
    ELSE LET name == SanitizeName(body.Name)
             script == WithDefaults(body, name)
         IN  IF alreadyExists(config, name)
             THEN [status |-> 409, err |-> "exists", name |-> name]
             ELSE IF script.Type = "redirect" /\ script.RedirectURL = <<>>
             THEN [status |-> 400, err |-> "url required", name |-> name]
             ELSE IF script.Type = "redirect"
                     /\ ~HasPrefix(script.RedirectURL, <<"http://">>)
                     /\ ~HasPrefix(script.RedirectURL, <<"https://">>)
             THEN [status |-> 400, err |-> "url scheme", name |-> name]
             ELSE [status |-> 0, err |-> "", name |-> name]

\* createScriptAPI once the body is accepted: materialize by type, then
\* commit
createAccepted(body, F) ==
    LET originalName == body.Name
        script == WithDefaults(body, SanitizeName(body.Name))
    IN  IF script.Type = "local" THEN CreateLocal(script, originalName, F)
        ELSE IF script.Type = "redirect" THEN CreateRedirect(script, F)
        ELSE CreateCommit(script, fs, caddy, 0, F)

\* the handler clearing the published path before it has checked the body
createScriptAPIRemovesFirst(body, F) ==
    LET rejection == createRejection(body)
    IN  IF rejection.status # 0
        THEN Return(config, disk, Remove(fs, symlinkPath(SanitizeName(body.Name))),
                    caddy, index,
                    Response("create", rejection.status, rejection.err, rejection.name, "", 0, F))
        ELSE createAccepted(body, F)

\* POST /admin/scripts
createScriptAPI(body, F) ==
    LET rejection == createRejection(body)
    IN  IF rejection.status # 0
        THEN Return(config, disk, fs, caddy, index,
                    Response("create", rejection.status, rejection.err, rejection.name, "", 0, F))
        ELSE createAccepted(body, F)

\* an update that assigns all four fields as the body carries them
ApplyUpdatesOverwrites(script, updates) ==
    [script EXCEPT !.Description = updates.Description,
                   !.Icon = updates.Icon,
                   !.Type = updates.Type,
                   !.RedirectURL = updates.RedirectURL]

\* the partial update of updateScriptAPI: only non-empty fields overwrite
ApplyUpdates(script, updates) ==
    [script EXCEPT !.Description = IF updates.Description # "" THEN updates.Description ELSE @,
                   !.Icon = IF updates.Icon # "" THEN updates.Icon ELSE @,
                   !.Type = IF updates.Type # "" THEN updates.Type ELSE @,
                   !.RedirectURL = IF updates.RedirectURL # <<>> THEN updates.RedirectURL ELSE @]

\* PUT /admin/scripts/:name
updateScriptAPI(name, updates, F) ==
    LET i == Find(config, name)
    IN  IF i = 0
        THEN Return(config, disk, fs, caddy,
                    updateIndexPageWithCurrentScripts(config, index, F),
                    Response("update", 404, "not found", name, "", 0, F))
        ELSE LET script == config[i]
                 oldType == script.Type
                 oldRedirect == script.RedirectURL
                 cfg == [config EXCEPT ![i] = ApplyUpdates(script, updates)]
             IN  IF "save" \in F
                 THEN Return(cfg, disk, fs, caddy, index,
                             Response("update", 500, "save", name, oldType, 0, F))
                 ELSE LET removeOld == oldType = "redirect"
                                         /\ (updates.Type # "redirect" \/ updates.RedirectURL # oldRedirect)
                          c1 == IF removeOld THEN removeCaddyfileRedirect(caddy, script.Name, F).caddy
                                ELSE caddy
                          addNew == cfg[i].Type = "redirect" /\ cfg[i].RedirectURL # <<>>
                          r2 == IF addNew THEN updateCaddyfileRedirect(c1, script.Name, cfg[i].RedirectURL, F)
                                ELSE [caddy |-> c1, err |-> FALSE, attempts |-> 0]
                          reload == (oldType = "redirect" \/ cfg[i].Type = "redirect")
                                      /\ (updates.RedirectURL # <<>> \/ updates.Type # "")
                          n3 == IF reload THEN reloadCaddy(F).attempts ELSE 0
                      IN  Return(cfg, cfg, fs, r2.caddy, index,
                                 Response("update", 200, "", name, oldType, r2.attempts + n3, F))

\* a delete that removes the link and the route block before it saves
deleteScriptAPIRemovesFirst(name, F) ==
    LET i == Find(config, name)
    IN  IF i = 0
        THEN Return(config, disk, fs, caddy,
                    updateIndexPageWithCurrentScripts(config, index, F),
                    Response("delete", 404, "not found", name, "", 0, F))
        ELSE LET script == config[i]
                 cfg == RemoveAt(config, i)
                 f1 == IF script.Type = "local"
                       THEN RemoveAll(fs, symlinkPath(script.Name)) ELSE fs
                 c1 == IF script.Type = "redirect"
                       THEN removeCaddyfileRedirect(caddy, script.Name, F).caddy ELSE caddy
                 n == IF script.Type = "redirect" THEN reloadCaddy(F).attempts ELSE 0
             IN  IF "save" \in F
                 THEN Return(cfg, disk, f1, c1, index,
                             Response("delete", 500, "save", name, script.Type, n, F))
                 ELSE Return(cfg, cfg, f1, c1, index,
                             Response("delete", 200, "", name, script.Type, n, F))

\* DELETE /admin/scripts/:name
deleteScriptAPI(name, F) ==
    LET i == Find(config, name)
    IN  IF i = 0
        THEN Return(config, disk, fs, caddy,
                    updateIndexPageWithCurrentScripts(config, index, F),
                    Response("delete", 404, "not found", name, "", 0, F))
        ELSE LET script == config[i]
                 cfg == RemoveAt(config, i)
             IN  IF "save" \in F
                 THEN Return(cfg, disk, fs, caddy, index,
                             Response("delete", 500, "save", name, script.Type, 0, F))
                 ELSE LET f1 == IF script.Type = "local"
                                THEN RemoveAll(fs, symlinkPath(script.Name)) ELSE fs
                          c1 == IF script.Type = "redirect"
                                THEN removeCaddyfileRedirect(caddy, script.Name, F).caddy ELSE caddy
                          n == IF script.Type = "redirect" THEN reloadCaddy(F).attempts ELSE 0
                      IN  Return(cfg, cfg, f1, c1, index,
                                 Response("delete", 200, "", name, script.Type, n, F))

----------------------------------------------------------------------------
(* Requests and the specification *)

\* bodies of POST /admin/scripts; a body carries a target for a redirect
\* and a selected file for a local script, as the admin page sends them
CreateBodies ==
    {b \in [Name : RawNames, Path : {<<>>}, Description : {"", "d1"}, Icon : {""},
            Type : {"", "local", "redirect"},
            RedirectURL : {<<>>, <<"http://", "x">>, <<"ftp://", "z">>},
            ScriptPath : ScriptPaths] :
        /\ b.Type = "redirect" => b.ScriptPath = <<>>
        /\ b.Type # "redirect" => b.RedirectURL = <<>>}

\* bodies of PUT /admin/scripts/:name
UpdateBodies ==
    [Name : {<<>>}, Path : {<<>>}, Description : {"", "d2"}, Icon : Icons,
     Type : Types, RedirectURL : {<<>>, <<"https://", "y">>, <<"ftp://", "z">>},
     ScriptPath : {<<>>}]

\* a request runs with no failing I/O call or with one; the calls a create
\* makes depend on the type of the entry
Failing(points) == {{}} \cup {{p} : p \in points}

CreateFailures(body) ==
    IF body.Type = "redirect" THEN Failing({"caddyRead", "caddyWrite", "reload", "save", "index"})
    ELSE IF body.ScriptPath = <<>> THEN Failing({"write", "symlink", "save", "index"})
    ELSE Failing({"symlink", "save", "index"})

UpdateFailures == Failing({"save", "caddyRead", "caddyWrite", "reload", "index"})

\* /app, the directory that holds the scripts root
AppDir == << <<"/app">> >>

\* a directory next to the scripts root whose name begins with the root's
ScriptsSibling == << <<"/app/scripts", "-old">> >>

\* the filesystem at startup: the scripts root with the operator's file,
\* the directory that holds the root, a directory next to the root, and a
\* file elsewhere
InitFS ==
    Put(Put(Put(Put(Put(Put(Put(<<>>, scriptsPath, Dir), ExistingFile,
                            File(DefaultContent("ext", <<>>))),
                        NamedFile, File(DefaultContent("named", <<>>))),
                    << <<"/etc">> >>, Dir), OutsideFile, File(DefaultContent("passwd", <<>>))),
            AppDir, Dir), ScriptsSibling, Dir)

\* the browser sessions that talk to the service
Sessions == {"s1", "s2"}

\* no request recorded
NoRequest == [session |-> "", route |-> "", name |-> <<>>, body |-> <<>>]

\* the session store once the operator has logged in from every browser:
\* the handlers run as authMiddleware lets them
LoggedIn == [s \in Sessions |-> TRUE]

\* main: the catalog is loaded from config.yaml and the landing page is
\* generated from it
Init ==
    /\ config = <<>>
    /\ disk = <<>>
    /\ fs = InitFS
    /\ caddy = CaddyfileWithAnchor
    /\ index = generateIndexHTML(<<>>)
    /\ resp = Response("start", 0, "", <<>>, "", 0, {})
    /\ ops = 0
    /\ faulted = FALSE
    /\ request = NoRequest
    /\ sessions = LoggedIn
    /\ inflight = <<>>

Create ==
    /\ ops < MaxOps
    /\ \E body \in CreateBodies : \E F \in CreateFailures(body) :
          createScriptAPI(body, F) /\ faulted' = (faulted \/ F # {})
    /\ UNCHANGED request

Update ==
    /\ ops < MaxOps
    /\ \E name \in ParamNames, updates \in UpdateBodies, F \in UpdateFailures :
          updateScriptAPI(name, updates, F) /\ faulted' = (faulted \/ F # {})
    /\ UNCHANGED request

Delete ==
    /\ ops < MaxOps
    /\ \E name \in ParamNames, F \in UpdateFailures :
          deleteScriptAPI(name, F) /\ faulted' = (faulted \/ F # {})
    /\ UNCHANGED request

Next == Create \/ Update \/ Delete

Spec == Init /\ [][Next]_vars

----------------------------------------------------------------------------
(* The service started on a catalog that already lists entries *)

\* a local entry as a create without a selected file stores it
LocalEntry(name, description) ==
    [Name |-> name, Path |-> name, Description |-> description, Icon |-> DefaultIcon,
     Type |-> "local", RedirectURL |-> <<>>, ScriptPath |-> scriptFile(name)]

\* a redirect entry as create stores it
RedirectEntry(name, description, redirectURL) ==
    [Name |-> name, Path |-> name, Description |-> description, Icon |-> DefaultIcon,
     Type |-> "redirect", RedirectURL |-> redirectURL, ScriptPath |-> <<>>]

\* config.yaml as two creates left it: a local entry and a redirect entry
LoadedCatalog ==
    << LocalEntry(<<"a">>, "d1"), RedirectEntry(<<"a", "_">>, "d1", <<"http://", "x">>) >>

\* the files the create of the local entry left
LoadedFS ==
    Put(Put(Put(InitFS, scriptDir(<<"a">>), Dir),
            scriptFile(<<"a">>), File(DefaultContent("d1", <<"a">>))),
        symlinkPath(<<"a">>), Link(scriptFile(<<"a">>)))

\* the Caddyfile the create of the redirect entry left
LoadedCaddyfile ==
    updateCaddyfileRedirect(CaddyfileWithAnchor, <<"a", "_">>, <<"http://", "x">>, {}).caddy

\* main on a config.yaml that lists entries
LoadedInit ==
    /\ config = LoadedCatalog
    /\ disk = LoadedCatalog
    /\ fs = LoadedFS
    /\ caddy = LoadedCaddyfile
    /\ index = generateIndexHTML(LoadedCatalog)
    /\ resp = Response("start", 0, "", <<>>, "", 0, {})
    /\ ops = 0
    /\ faulted = FALSE
    /\ request = NoRequest
    /\ sessions = LoggedIn
    /\ inflight = <<>>

\* the request as the handler received it
Received(session, route, name, body) ==
    [session |-> session, route |-> route, name |-> name, body |-> body]

\* bodies of PUT /admin/scripts/:name with every combination of present
\* and absent fields
PartialBodies ==
    {u \in UpdateBodies : u.Type \in {"", "local", "redirect"}
                             /\ u.RedirectURL \in {<<>>, <<"https://", "y">>}}

\* PUT /admin/scripts/:name, the request recorded
UpdateLogged ==
    /\ ops < MaxOps
    /\ \E name \in ParamNames, updates \in PartialBodies :
          /\ updateScriptAPI(name, updates, {})
          /\ UNCHANGED faulted
          /\ request' = Received("s1", "update", name, updates)

\* DELETE /admin/scripts/:name, the request recorded; saveConfig may fail
DeleteLogged ==
    /\ ops < MaxOps
    /\ \E name \in ParamNames, F \in Failing({"save"}) :
          /\ deleteScriptAPI(name, F)
          /\ faulted' = (faulted \/ F # {})
          /\ request' = Received("s1", "delete", name, <<>>)

LoadedNext == UpdateLogged \/ DeleteLogged

LoadedSpec == LoadedInit /\ [][LoadedNext]_vars

----------------------------------------------------------------------------
(* The routes of main behind authMiddleware, with login and logout *)

\* config.Admin.Username
AdminUsername == "admin"

\* bcrypt.GenerateFromPassword: the hash is not the password
GenerateFromPassword(password) == <<"$2a$", password>>

\* bcrypt.CompareHashAndPassword: nil exactly when the hash was made from
\* the password
CompareHashAndPassword(hash, password) == hash = GenerateFromPassword(password)

\* config.Admin.Password, the hash stored in config.yaml
AdminPassword == GenerateFromPassword("secret")

\* the response of a handler that returns data: what it read, or nothing
Reply(op, status, err, name, data) ==
    [op |-> op, status |-> status, err |-> err, name |-> name, oldType |-> "",
     reloads |-> 0, reloadFailed |-> FALSE, data |-> data]

\* text an operator types into the editor of the admin page
Text(t) == [shebang |-> FALSE, desc |-> t, name |-> <<>>]

\* filepath.Join(scriptsPath, script.Name, "runme_<name>.sh"), the path of
\* the two content handlers
contentFile(name) == symlinkPath(name) \o << <<"runme_">> \o name \o <<".sh">> >>

\* the path the kernel reaches for p: links in the directory part followed
OpenPath(f, p) == Resolve(f, Parent(p)) \o <<p[Len(p)]>>

\* GET /admin
adminHandler ==
    Return(config, disk, fs, caddy, index, Reply("admin", 200, "", <<>>, config))

\* GET /admin/scripts
getScriptsAPI ==
    Return(config, disk, fs, caddy, index, Reply("list", 200, "", <<>>, config))

\* GET /admin/scripts/:name/content
getScriptContentAPI(name) ==
    LET hits == {i \in 1..Len(config) : config[i].Name = name /\ config[i].Type = "local"}
        file == OpenPath(fs, contentFile(name))
    IN  IF hits = {}
        THEN Return(config, disk, fs, caddy, index,
                    Reply("getContent", 404, "not found or not local", name, <<>>))
        ELSE IF ~Readable(fs, file)
        THEN Return(config, disk, fs, caddy, index,
                    Reply("getContent", 404, "file not found", name, <<>>))
        ELSE Return(config, disk, fs, caddy, index,
                    Reply("getContent", 200, "", name, <<fs[Resolve(fs, file)].c>>))

\* PUT /admin/scripts/:name/content
updateScriptContentAPI(name, content, F) ==
    LET hits == {i \in 1..Len(config) : config[i].Name = name /\ config[i].Type = "local"}
        file == Resolve(fs, OpenPath(fs, contentFile(name)))
    IN  IF hits = {}
        THEN Return(config, disk, fs, caddy, index,
                    Reply("putContent", 404, "not found or not local", name, <<>>))
        ELSE IF ~WriteFileOk(fs, file, "write" \in F)
        THEN Return(config, disk, fs, caddy, index,
                    Reply("putContent", 500, "file", name, <<>>))
        ELSE Return(config, disk, WriteFile(fs, file, content), caddy, index,
                    Reply("putContent", 200, "", name, <<>>))

\* POST /admin/index-page: the page is generated from the entries in the
\* body
updateIndexPageAPI(scripts, F) ==
    IF "index" \in F
    THEN Return(config, disk, fs, caddy, index, Reply("postIndex", 500, "index", <<>>, <<>>))
    ELSE Return(config, disk, fs, caddy, generateIndexHTML(scripts),
                Reply("postIndex", 200, "", <<>>, <<>>))

\* GET /admin/index-page
getIndexPageAPI ==
    Return(config, disk, fs, caddy, index, Reply("getIndex", 200, "", <<>>, config))

\* the first path components whose text begins with "/app/scripts"
RootPrefixed == { <<"/app/scripts">>, <<"/app/scripts", "-old">> }

\* the directory one level up, as the kernel follows ".."
Up(dir) ==
    IF Len(dir) > 1 THEN Parent(dir)
    ELSE IF dir[1][1] = "/app/scripts" THEN AppDir
    ELSE << <<"/">> >>

\* the directory a path names once its ".." components are followed
RECURSIVE Walk(_, _)
Walk(dir, rest) ==
    IF rest = <<>> THEN dir
    ELSE IF Head(rest) = <<"..">> THEN Walk(Up(dir), Tail(rest))
    ELSE IF dir = << <<"/">> >> THEN Walk(<< <<"/" \o Head(rest)[1]>> >>, Tail(rest))
    ELSE IF dir = AppDir /\ Head(rest) = <<"scripts">> THEN Walk(scriptsPath, Tail(rest))
    ELSE Walk(dir \o <<Head(rest)>>, Tail(rest))

\* the paths the browse requests carry
BrowsePaths ==
    { scriptsPath, << <<"/etc">> >>, ScriptsSibling,
      scriptsPath \o << <<"..">> >>,
      scriptsPath \o << <<"..">>, <<"..">>, <<"etc">> >> }

\* GET /admin/browse-files and /admin/browse: a path that does not begin
\* with the scripts root is replaced by the root; directories are listed,
\* and the files os.Stat finds (the files of the model are all executable)
browseFilesAPI(path) ==
    LET shown == IF path # <<>> /\ path[1] \in RootPrefixed THEN path ELSE scriptsPath
        dir == Walk(SubSeq(shown, 1, 1), Tail(shown))
        items == {q \in DOMAIN fs : Len(q) = Len(dir) + 1 /\ Parent(q) = dir
                                      /\ (IsDir(fs, q) \/ Readable(fs, q))}
    IN  IF ~IsDir(fs, dir)
        THEN Return(config, disk, fs, caddy, index, Reply("browse", 500, "read", <<>>, <<>>))
        ELSE Return(config, disk, fs, caddy, index, Reply("browse", 200, "", <<>>, <<items, shown>>))

\* a middleware that calls the next handler whatever the session holds
authMiddlewareLetsThrough(session, handler) == handler

\* authMiddleware: a session without authenticated = true is redirected to
\* the login page, any other goes on to the handler
authMiddleware(session, handler) ==
    IF sessions[session] # TRUE
    THEN Return(config, disk, fs, caddy, index, Reply("redirect", 302, "", <<>>, <<>>))
    ELSE handler

\* a login that looks at the user name alone
loginHandlerNameOnly(session, username, password) ==
    /\ IF username = AdminUsername
       THEN /\ sessions' = [sessions EXCEPT ![session] = TRUE]
            /\ resp' = Reply("login", 302, "", <<>>, <<>>)
       ELSE /\ UNCHANGED sessions
            /\ resp' = Reply("login", 200, "Invalid credentials", <<>>, <<>>)
    /\ request' = Received(session, "login", <<>>, <<username, password>>)
    /\ UNCHANGED <<config, disk, fs, caddy, index, ops, faulted, inflight>>

\* POST /login: the session is marked on the admin's name and password
loginHandler(session, username, password) ==
    /\ IF username = AdminUsername /\ CompareHashAndPassword(AdminPassword, password)
       THEN /\ sessions' = [sessions EXCEPT ![session] = TRUE]
            /\ resp' = Reply("login", 302, "", <<>>, <<>>)
       ELSE /\ UNCHANGED sessions
            /\ resp' = Reply("login", 200, "Invalid credentials", <<>>, <<>>)
    /\ request' = Received(session, "login", <<>>, <<username, password>>)
    /\ UNCHANGED <<config, disk, fs, caddy, index, ops, faulted, inflight>>

\* POST /logout: sess.Destroy()
logoutHandler(session) ==
    /\ sessions' = [sessions EXCEPT ![session] = FALSE]
    /\ resp' = Reply("logout", 302, "", <<>>, <<>>)
    /\ request' = Received(session, "logout", <<>>, <<>>)
    /\ UNCHANGED <<config, disk, fs, caddy, index, ops, faulted, inflight>>

\* one request body for each kind of entry
AuthCreateBodies ==
    {b \in CreateBodies : b.Name = <<"a">> /\ b.Description = "d1" /\ b.ScriptPath = <<>>
                            /\ b.Type \in {"local", "redirect"}
                            /\ b.RedirectURL \in {<<>>, <<"http://", "x">>}}

AuthUpdateBodies ==
    {u \in UpdateBodies : u.Description = "d2" /\ u.Icon = "" /\ u.Type = ""
                            /\ u.RedirectURL = <<>>}

\* store = session.New(): no session is authenticated
AuthInit ==
    /\ config = <<>>
    /\ disk = <<>>
    /\ fs = InitFS
    /\ caddy = CaddyfileWithAnchor
    /\ index = generateIndexHTML(<<>>)
    /\ resp = Reply("start", 0, "", <<>>, <<>>)
    /\ ops = 0
    /\ faulted = FALSE
    /\ request = NoRequest
    /\ sessions = [s \in Sessions |-> FALSE]
    /\ inflight = <<>>

\* a request to an admin route: what arrived is recorded, no I/O call fails
Admin(session, route, name, body, handler) ==
    /\ ops < MaxOps
    /\ authMiddleware(session, handler)
    /\ request' = Received(session, route, name, body)
    /\ UNCHANGED faulted

Login ==
    \E session \in Sessions, username \in {AdminUsername, "eve"},
       password \in {"secret", "guess"} :
        loginHandler(session, username, password)

Logout == \E session \in Sessions : logoutHandler(session)

AdminPage == \E session \in Sessions : Admin(session, "GET /admin", <<>>, <<>>, adminHandler)

ListScripts ==
    \E session \in Sessions : Admin(session, "GET /admin/scripts", <<>>, <<>>, getScriptsAPI)

CreateScript ==
    \E session \in Sessions, body \in AuthCreateBodies :
        Admin(session, "POST /admin/scripts", <<>>, body, createScriptAPI(body, {}))

UpdateScript ==
    \E session \in Sessions, updates \in AuthUpdateBodies :
        Admin(session, "PUT /admin/scripts/:name", <<"a">>, updates,
              updateScriptAPI(<<"a">>, updates, {}))

DeleteScript ==
    \E session \in Sessions :
        Admin(session, "DELETE /admin/scripts/:name", <<"a">>, <<>>,
              deleteScriptAPI(<<"a">>, {}))

GetContent ==
    \E session \in Sessions :
        Admin(session, "GET /admin/scripts/:name/content", <<"a">>, <<>>,
              getScriptContentAPI(<<"a">>))

PutContent ==
    \E session \in Sessions :
        Admin(session, "PUT /admin/scripts/:name/content", <<"a">>, Text("t"),
              updateScriptContentAPI(<<"a">>, Text("t"), {}))

\* the lists POST /admin/index-page is sent: none, one entry, and two entries
\* with different icons in an order that is not the order of their names
IndexPageLists ==
    { <<>>, <<LocalEntry(<<"z">>, "d3")>>,
      << [RedirectEntry(<<"z">>, "d3", <<"http://", "x">>) EXCEPT !.Icon = "i2"],
         LocalEntry(<<"a">>, "d1") >> }

PostIndexPage ==
    \E session \in Sessions, scripts \in IndexPageLists :
        Admin(session, "POST /admin/index-page", <<>>, scripts, updateIndexPageAPI(scripts, {}))

GetIndexPage ==
    \E session \in Sessions :
        Admin(session, "GET /admin/index-page", <<>>, <<>>, getIndexPageAPI)

BrowseFiles ==
    \E session \in Sessions, path \in BrowsePaths :
        Admin(session, "GET /admin/browse-files", <<>>, path, browseFilesAPI(path))

Browse ==
    \E session \in Sessions, path \in BrowsePaths :
        Admin(session, "GET /admin/browse", <<>>, path, browseFilesAPI(path))

AuthNext ==
    \/ Login \/ Logout \/ AdminPage \/ ListScripts \/ CreateScript \/ UpdateScript
    \/ DeleteScript \/ GetContent \/ PutContent \/ PostIndexPage \/ GetIndexPage
    \/ BrowseFiles \/ Browse

AuthSpec == AuthInit /\ [][AuthNext]_vars

----------------------------------------------------------------------------
(* The route block editor on its own: its two functions applied to a file *)

\* how many edits a run of the editor makes
MaxEdits == 3

\* the Caddyfiles the editor starts from: as deployed, without the anchor
\* comment, and with a route block already in it
EditorFiles == { CaddyfileWithAnchor, CaddyfileWithoutAnchor, LoadedCaddyfile }

\* the names and targets of the edits
EditorNames == { <<"a">>, <<"a", "_">> }

EditorURLs == { <<"http://", "x">>, <<"https://", "y">> }

EditorFailures == Failing({"caddyRead", "caddyWrite", "reload"})

\* which call of an edit returned the error
EditError(err, F) ==
    IF ~err THEN ""
    ELSE IF "caddyRead" \in F THEN "read"
    ELSE IF "caddyWrite" \in F THEN "write"
    ELSE "reload"

EditorInit ==
    /\ caddy \in EditorFiles
    /\ config = <<>>
    /\ disk = <<>>
    /\ fs = InitFS
    /\ index = generateIndexHTML(<<>>)
    /\ resp = Response("start", 0, "", <<>>, "", 0, {})
    /\ ops = 0
    /\ faulted = FALSE
    /\ request = NoRequest
    /\ sessions = LoggedIn
    /\ inflight = <<>>

\* a call of updateCaddyfileRedirect
Install ==
    /\ ops < MaxEdits
    /\ \E scriptName \in EditorNames, redirectURL \in EditorURLs, F \in EditorFailures :
          LET r == updateCaddyfileRedirect(caddy, scriptName, redirectURL, F)
          IN  /\ caddy' = r.caddy
              /\ resp' = Response("install", IF r.err THEN 500 ELSE 200, EditError(r.err, F),
                                   scriptName, "", r.attempts, F)
              /\ request' = Received("", "install", scriptName, redirectURL)
              /\ faulted' = (faulted \/ F # {})
    /\ ops' = ops + 1
    /\ UNCHANGED <<config, disk, fs, index, sessions, inflight>>

\* a call of removeCaddyfileRedirect
Uninstall ==
    /\ ops < MaxEdits
    /\ \E scriptName \in EditorNames, F \in Failing({"caddyRead", "caddyWrite"}) :
          LET r == removeCaddyfileRedirect(caddy, scriptName, F)
          IN  /\ caddy' = r.caddy
              /\ resp' = Response("remove", IF r.err THEN 500 ELSE 200, EditError(r.err, F),
                                   scriptName, "", 0, F)
              /\ request' = Received("", "remove", scriptName, <<>>)
              /\ faulted' = (faulted \/ F # {})
    /\ ops' = ops + 1
    /\ UNCHANGED <<config, disk, fs, index, sessions, inflight>>

EditorNext == Install \/ Uninstall

EditorSpec == EditorInit /\ [][EditorNext]_vars

----------------------------------------------------------------------------
(* Requests handled concurrently: fiber runs every request on its own     *)
(* goroutine and the handlers take no lock, so the handlers interleave at  *)
(* their reads and writes of config, the files and the Caddyfile           *)

\* how many requests are in flight together
MaxInflight == 2

\* a request in flight: the handler, its position, its script variable,
\* the name as the request spelled it, the index its loop found, the slice
\* or file text it holds in a local variable, the status it answered
InFlight(kind, pc, script, orig, i, snap, text, status) ==
    [kind |-> kind, pc |-> pc, script |-> script, orig |-> orig, i |-> i,
     snap |-> snap, text |-> text, status |-> status]

\* the creates in flight: two spellings of one name and another name, as a
\* local script without a selected file or as a redirect
ConcurrentCreates ==
    {InFlight("create", "check", b, b.Name, 0, <<>>, <<>>, 0) :
        b \in {c \in [Name : {<<"b">>, <<"B">>, <<"c">>}, Path : {<<>>}, Description : {"d1"},
                        Icon : {""}, Type : {"local", "redirect"},
                        RedirectURL : {<<>>, <<"http://", "x">>}, ScriptPath : {<<>>}] :
                  (c.Type = "redirect") = (c.RedirectURL # <<>>)}}

\* the deletes in flight, addressed to the entries the catalog lists
ConcurrentDeletes ==
    {InFlight("delete", "find", [LoadedCatalog[1] EXCEPT !.Name = name], name, 0, <<>>, <<>>, 0) :
        name \in {<<"a">>, <<"a", "_">>}}

\* the body of the updates in flight: a new description and nothing else
ConcurrentUpdate ==
    [Name |-> <<>>, Path |-> <<>>, Description |-> "d2", Icon |-> "", Type |-> "",
     RedirectURL |-> <<>>, ScriptPath |-> <<>>]

\* the updates in flight, addressed to the entries the catalog lists
ConcurrentUpdates ==
    {InFlight("update", "ufind", ConcurrentUpdate, name, 0, <<>>, <<>>, 0) :
        name \in {<<"a">>, <<"a", "_">>}}

ConcurrentInit ==
    /\ config = LoadedCatalog
    /\ disk = LoadedCatalog
    /\ fs = LoadedFS
    /\ caddy = LoadedCaddyfile
    /\ index = generateIndexHTML(LoadedCatalog)
    /\ resp = Response("start", 0, "", <<>>, "", 0, {})
    /\ ops = 0
    /\ faulted = FALSE
    /\ request = NoRequest
    /\ sessions = LoggedIn
    /\ inflight \in [1..MaxInflight ->
                        ConcurrentCreates \cup ConcurrentDeletes \cup ConcurrentUpdates]

\* request p moves on: its new position and locals
Goto(p, r) == inflight' = [inflight EXCEPT ![p] = r]

\* request p answers
Answer(p, status) == Goto(p, [inflight[p] EXCEPT !.pc = "done", !.status = status])

\* what a step of a request never touches
Untouched == UNCHANGED <<resp, ops, faulted, request, sessions>>

\* createScriptAPI up to the end of its validation: required fields,
\* sanitized name, duplicate loop over config.Scripts, defaults, target
CreateCheck(p) ==
    LET r == inflight[p]
        rejection == createRejection(r.script)
        script == WithDefaults(r.script, SanitizeName(r.script.Name))
    IN  /\ r.kind = "create" /\ r.pc = "check"
        /\ IF rejection.status # 0 THEN Answer(p, rejection.status)
           ELSE Goto(p, [r EXCEPT !.script = script,
                                  !.pc = IF script.Type = "redirect" THEN "caddyRead"
                                         ELSE "mkdir"])
        /\ UNCHANGED <<config, disk, fs, caddy, index>>
        /\ Untouched

\* os.MkdirAll(scriptDir)
CreateMkdirAll(p) ==
    LET r == inflight[p]
    IN  /\ r.kind = "create" /\ r.pc = "mkdir"
        /\ fs' = MkdirAll(fs, scriptDir(r.script.Name), FALSE)
        /\ Goto(p, [r EXCEPT !.pc = "write"])
        /\ UNCHANGED <<config, disk, caddy, index>>
        /\ Untouched

\* os.WriteFile(scriptFile, defaultContent)
CreateWriteFile(p) ==
    LET r == inflight[p]
        file == scriptFile(r.script.Name)
    IN  /\ r.kind = "create" /\ r.pc = "write"
        /\ IF WriteFileOk(fs, file, FALSE)
           THEN /\ fs' = WriteFile(fs, file, DefaultContent(r.script.Description, r.orig))
                /\ Goto(p, [r EXCEPT !.pc = "unlink"])
           ELSE /\ UNCHANGED fs
                /\ Answer(p, 500)
        /\ UNCHANGED <<config, disk, caddy, index>>
        /\ Untouched

\* os.Remove(symlinkPath)
CreateRemove(p) ==
    LET r == inflight[p]
    IN  /\ r.kind = "create" /\ r.pc = "unlink"
        /\ fs' = Remove(fs, symlinkPath(r.script.Name))
        /\ Goto(p, [r EXCEPT !.pc = "link"])
        /\ UNCHANGED <<config, disk, caddy, index>>
        /\ Untouched

\* os.Symlink(scriptFile, symlinkPath) and script.ScriptPath = scriptFile
CreateSymlink(p) ==
    LET r == inflight[p]
        file == scriptFile(r.script.Name)
        path == symlinkPath(r.script.Name)
    IN  /\ r.kind = "create" /\ r.pc = "link"
        /\ IF SymlinkOk(fs, path, FALSE)
           THEN /\ fs' = Symlink(fs, file, path)
                /\ Goto(p, [r EXCEPT !.script.ScriptPath = file, !.pc = "appendLoad"])
           ELSE /\ UNCHANGED fs
                /\ Answer(p, 500)
        /\ UNCHANGED <<config, disk, caddy, index>>
        /\ Untouched

\* os.ReadFile(caddyfilePath) of updateCaddyfileRedirect and of
\* removeCaddyfileRedirect: the text goes into a local variable
CaddyReadFile(p) ==
    LET r == inflight[p]
    IN  /\ r.pc = "caddyRead"
        /\ Goto(p, [r EXCEPT !.text = caddy, !.pc = "caddyWrite"])
        /\ UNCHANGED <<config, disk, fs, caddy, index>>
        /\ Untouched

\* the edit of the local text and os.WriteFile(caddyfilePath): a create
\* installs its block, a delete cuts its block
CaddyWriteFile(p) ==
    LET r == inflight[p]
    IN  /\ r.pc = "caddyWrite"
        /\ caddy' = IF r.kind = "create"
                    THEN updateCaddyfileRedirect(r.text, r.script.Name, r.script.RedirectURL, {}).caddy
                    ELSE removeCaddyfileRedirect(r.text, r.script.Name, {}).caddy
        /\ Goto(p, [r EXCEPT !.pc = "reload"])
        /\ UNCHANGED <<config, disk, fs, index>>
        /\ Untouched

\* reloadCaddy: reads the file and posts it; a create goes on to its
\* append, a delete answers
ReloadPost(p) ==
    LET r == inflight[p]
    IN  /\ r.pc = "reload"
        /\ IF r.kind = "create" THEN Goto(p, [r EXCEPT !.pc = "appendLoad"])
           ELSE Answer(p, 200)
        /\ UNCHANGED <<config, disk, fs, caddy, index>>
        /\ Untouched

\* config.Scripts = append(config.Scripts, script), first half: the slice
\* is loaded
AppendLoad(p) ==
    LET r == inflight[p]
    IN  /\ r.kind = "create" /\ r.pc = "appendLoad"
        /\ Goto(p, [r EXCEPT !.snap = config, !.pc = "appendStore"])
        /\ UNCHANGED <<config, disk, fs, caddy, index>>
        /\ Untouched

\* config.Scripts = append(config.Scripts, script), second half: the
\* slice with the new element is stored
AppendStore(p) ==
    LET r == inflight[p]
    IN  /\ r.kind = "create" /\ r.pc = "appendStore"
        /\ config' = Append(r.snap, r.script)
        /\ Goto(p, [r EXCEPT !.pc = "marshal"])
        /\ UNCHANGED <<disk, fs, caddy, index>>
        /\ Untouched

\* saveConfig, yaml.Marshal(&config)
SaveMarshal(p) ==
    LET r == inflight[p]
    IN  /\ r.pc = "marshal"
        /\ Goto(p, [r EXCEPT !.snap = config, !.pc = "saveWrite"])
        /\ UNCHANGED <<config, disk, fs, caddy, index>>
        /\ Untouched

\* saveConfig, os.WriteFile(configPath, data); then the handler goes on (a
\* delete of an entry that is neither local nor redirect answers at once)
SaveWriteFile(p) ==
    LET r == inflight[p]
    IN  /\ r.pc = "saveWrite"
        /\ disk' = r.snap
        /\ Goto(p, IF r.kind = "create" THEN [r EXCEPT !.pc = "index"]
                   ELSE IF r.kind = "update" THEN [r EXCEPT !.pc = "uedit"]
                   ELSE IF r.script.Type = "local" THEN [r EXCEPT !.pc = "removeAll"]
                   ELSE IF r.script.Type = "redirect" THEN [r EXCEPT !.pc = "caddyRead"]
                   ELSE [r EXCEPT !.pc = "done", !.status = 200])
        /\ UNCHANGED <<config, fs, caddy, index>>
        /\ Untouched

\* updateIndexPageWithCurrentScripts at the end of a create
IndexWrite(p) ==
    LET r == inflight[p]
    IN  /\ r.kind = "create" /\ r.pc = "index"
        /\ index' = generateIndexHTML(config)
        /\ Answer(p, 200)
        /\ UNCHANGED <<config, disk, fs, caddy>>
        /\ Untouched

\* the loop of deleteScriptAPI: finds the entry, or regenerates the landing
\* page and answers 404
DeleteFind(p) ==
    LET r == inflight[p]
        i == Find(config, r.orig)
    IN  /\ r.kind = "delete" /\ r.pc = "find"
        /\ IF i = 0
           THEN /\ index' = generateIndexHTML(config)
                /\ Answer(p, 404)
           ELSE /\ UNCHANGED index
                /\ Goto(p, [r EXCEPT !.script = config[i], !.i = i, !.pc = "remove"])
        /\ UNCHANGED <<config, disk, fs, caddy>>
        /\ Untouched

\* config.Scripts = append(config.Scripts[:i], config.Scripts[i+1:]...);
\* slicing past the end of the slice panics
DeleteRemoveEntry(p) ==
    LET r == inflight[p]
    IN  /\ r.kind = "delete" /\ r.pc = "remove"
        /\ IF r.i <= Len(config)
           THEN /\ config' = RemoveAt(config, r.i)
                /\ Goto(p, [r EXCEPT !.pc = "marshal"])
           ELSE /\ UNCHANGED config
                /\ Answer(p, 500)
        /\ UNCHANGED <<disk, fs, caddy, index>>
        /\ Untouched

\* os.RemoveAll(filepath.Join(scriptsPath, script.Name)) and the answer of
\* a delete of a local entry
DeleteRemoveAll(p) ==
    LET r == inflight[p]
    IN  /\ r.kind = "delete" /\ r.pc = "removeAll"
        /\ fs' = RemoveAll(fs, symlinkPath(r.script.Name))
        /\ Answer(p, 200)
        /\ UNCHANGED <<config, disk, caddy, index>>
        /\ Untouched

\* updateScriptAPI, the loop over config.Scripts: the position of the entry
\* with the name and a copy of it, or 404 after the landing page is rewritten
UpdateFind(p) ==
    LET r == inflight[p]
        i == Find(config, r.orig)
    IN  /\ r.kind = "update" /\ r.pc = "ufind"
        /\ IF i = 0
           THEN /\ index' = generateIndexHTML(config)
                /\ Answer(p, 404)
           ELSE /\ UNCHANGED index
                /\ Goto(p, [r EXCEPT !.script = config[i], !.i = i, !.pc = "apply"])
        /\ UNCHANGED <<config, disk, fs, caddy>>
        /\ Untouched

\* config.Scripts[i].Description = updates.Description and the like, on the
\* slice as it is now; indexing past its end panics
UpdateApply(p) ==
    LET r == inflight[p]
    IN  /\ r.kind = "update" /\ r.pc = "apply"
        /\ IF r.i <= Len(config)
           THEN /\ config' = [config EXCEPT ![r.i] = ApplyUpdates(@, ConcurrentUpdate)]
                /\ Goto(p, [r EXCEPT !.pc = "marshal"])
           ELSE /\ UNCHANGED config
                /\ Answer(p, 500)
        /\ UNCHANGED <<disk, fs, caddy, index>>
        /\ Untouched

\* updateScriptAPI after its save: the Caddyfile calls decided from the
\* copy of the old entry and from config.Scripts[i] as it is now, and the
\* answer
UpdateEdit(p) ==
    LET r == inflight[p]
    IN  /\ r.kind = "update" /\ r.pc = "uedit"
        /\ IF r.i <= Len(config)
           THEN LET removeOld == r.script.Type = "redirect"
                    c1 == IF removeOld
                          THEN removeCaddyfileRedirect(caddy, r.script.Name, {}).caddy
                          ELSE caddy
                    addNew == config[r.i].Type = "redirect" /\ config[r.i].RedirectURL # <<>>
                IN  /\ caddy' = IF addNew
                                THEN updateCaddyfileRedirect(c1, r.script.Name,
                                                             config[r.i].RedirectURL, {}).caddy
                                ELSE c1
                    /\ Answer(p, 200)
           ELSE /\ UNCHANGED caddy
                /\ Answer(p, 500)
        /\ UNCHANGED <<config, disk, fs, index>>
        /\ Untouched

ConcurrentNext ==
    \E p \in 1..MaxInflight :
        \/ CreateCheck(p) \/ CreateMkdirAll(p) \/ CreateWriteFile(p) \/ CreateRemove(p)
        \/ CreateSymlink(p) \/ CaddyReadFile(p) \/ CaddyWriteFile(p) \/ ReloadPost(p)
        \/ AppendLoad(p) \/ AppendStore(p) \/ SaveMarshal(p) \/ SaveWriteFile(p)
        \/ IndexWrite(p) \/ DeleteFind(p) \/ DeleteRemoveEntry(p) \/ DeleteRemoveAll(p)
        \/ UpdateFind(p) \/ UpdateApply(p) \/ UpdateEdit(p)

ConcurrentSpec == ConcurrentInit /\ [][ConcurrentNext]_vars

----------------------------------------------------------------------------
(* Creates under every spelling of a name *)

\* how many creates a run of this specification makes
MaxCreates == 2

\* the characters a requested name is spelled with: a letter in both cases
\* and the four separators
NameChars == { "a", "A", " ", "-", ".", "_" }

\* the requested names: every spelling of one or two characters
NameSpellings ==
    {<<c>> : c \in NameChars} \cup {<<c, d>> : c \in NameChars, d \in NameChars}

\* POST /admin/scripts with a spelling of the name, the request recorded
CreateNamed ==
    /\ ops < MaxCreates
    /\ \E name \in NameSpellings, type \in {"local", "redirect"} :
          LET body == [Name |-> name, Path |-> <<>>, Description |-> "d1", Icon |-> "",
                       Type |-> type,
                       RedirectURL |-> IF type = "redirect" THEN <<"http://", "x">> ELSE <<>>,
                       ScriptPath |-> <<>>]
          IN  /\ createScriptAPI(body, {})
              /\ request' = Received("s1", "create", <<>>, body)
    /\ UNCHANGED faulted

NameNext == CreateNamed

NameSpec == Init /\ [][NameNext]_vars

----------------------------------------------------------------------------
(* config.yaml written by saveConfig and read back by loadConfig *)

\* how many entries the saved catalogs have at most
MaxEntries == 2

\* the Admin part of Config: a user name and a bcrypt hash
Admins ==
    { [Username |-> AdminUsername, Password |-> AdminPassword],
      [Username |-> "root", Password |-> GenerateFromPassword("hunter2")] }

\* the entries of the saved catalogs: as create stores them, and as an
\* update leaves them (no script_path, or both optional fields set)
StoredEntries ==
    UNION { { LocalEntry(n, "d1"),
              [LocalEntry(n, "d2") EXCEPT !.ScriptPath = <<>>],
              RedirectEntry(n, "d1", <<"http://", "x">>),
              [RedirectEntry(n, "d2", <<"https://", "y">>) EXCEPT !.ScriptPath = ExistingFile] }
            : n \in {<<"a">>, <<"a", "_">>, <<"_">>} }

\* the catalogs: up to MaxEntries entries with different names, in any order
Catalogs ==
    UNION { { c \in [1..n -> StoredEntries] :
                \A i, j \in 1..n : c[i].Name = c[j].Name => i = j }
            : n \in 0..MaxEntries }

\* the values of the global config that are saved
Configs == [Admin : Admins, Scripts : Catalogs]

\* a YAML mapping is a sequence of <<key, value>> pairs; the value under a
\* key, or the zero value of the field when the key is absent
Value(mapping, key, zero) ==
    IF \E i \in 1..Len(mapping) : mapping[i][1] = key
    THEN mapping[CHOOSE i \in 1..Len(mapping) : mapping[i][1] = key][2]
    ELSE zero

\* yaml.Marshal of a ScriptConfig: the fields under their yaml tags, the two
\* omitempty fields left out when empty
MarshalScript(script) ==
    << <<"name", script.Name>>, <<"path", script.Path>>,
       <<"description", script.Description>>, <<"icon", script.Icon>>,
       <<"type", script.Type>> >>
    \o (IF script.RedirectURL = <<>> THEN <<>>
        ELSE << <<"redirect_url", script.RedirectURL>> >>)
    \o (IF script.ScriptPath = <<>> THEN <<>>
        ELSE << <<"script_path", script.ScriptPath>> >>)

\* yaml.Marshal(&config)
Marshal(cfg) ==
    << <<"admin", << <<"username", cfg.Admin.Username>>,
                     <<"password_hash", cfg.Admin.Password>> >> >>,
       <<"scripts", [i \in 1..Len(cfg.Scripts) |-> MarshalScript(cfg.Scripts[i])]>> >>

\* a decoder that looks the redirect target up under the name of the field
UnmarshalScriptByFieldName(mapping) ==
    [Name |-> Value(mapping, "name", <<>>), Path |-> Value(mapping, "path", <<>>),
     Description |-> Value(mapping, "description", ""),
     Icon |-> Value(mapping, "icon", ""), Type |-> Value(mapping, "type", ""),
     RedirectURL |-> Value(mapping, "redirecturl", <<>>),
     ScriptPath |-> Value(mapping, "script_path", <<>>)]

\* yaml.Unmarshal into a zero ScriptConfig: a field takes the value under
\* its yaml tag and stays empty when the document has no such key
UnmarshalScript(mapping) ==
    [Name |-> Value(mapping, "name", <<>>), Path |-> Value(mapping, "path", <<>>),
     Description |-> Value(mapping, "description", ""),
     Icon |-> Value(mapping, "icon", ""), Type |-> Value(mapping, "type", ""),
     RedirectURL |-> Value(mapping, "redirect_url", <<>>),
     ScriptPath |-> Value(mapping, "script_path", <<>>)]

\* yaml.Unmarshal(data, &config) at start-up, config being the zero Config
Unmarshal(data) ==
    LET admin == Value(data, "admin", <<>>)
        scripts == Value(data, "scripts", <<>>)
    IN  [Admin |-> [Username |-> Value(admin, "username", ""),
                    Password |-> Value(admin, "password_hash", <<>>)],
         Scripts |-> [i \in 1..Len(scripts) |-> UnmarshalScript(scripts[i])]]

\* in this specification disk is config.yaml as the document saveConfig wrote
StoreInit ==
    /\ config = <<>>
    /\ disk = Marshal([Admin |-> [Username |-> AdminUsername, Password |-> AdminPassword],
                       Scripts |-> <<>>])
    /\ fs = InitFS
    /\ caddy = CaddyfileWithAnchor
    /\ index = generateIndexHTML(<<>>)
    /\ resp = Reply("start", 0, "", <<>>, <<>>)
    /\ ops = 0
    /\ faulted = FALSE
    /\ request = NoRequest
    /\ sessions = LoggedIn
    /\ inflight = <<>>

\* saveConfig with the global config holding cfg; the value saved is recorded
SaveConfig ==
    \E cfg \in Configs :
        /\ config' = cfg.Scripts
        /\ disk' = Marshal(cfg)
        /\ request' = Received("", "save", <<>>, cfg)
        /\ resp' = Reply("save", 0, "", <<>>, <<>>)
        /\ UNCHANGED <<fs, caddy, index, ops, faulted, sessions, inflight>>

\* loadConfig of a restarted process; the value loaded is recorded
LoadConfig ==
    /\ request.route = "save"
    /\ config' = Unmarshal(disk).Scripts
    /\ resp' = Reply("load", 0, "", <<>>, Unmarshal(disk))
    /\ UNCHANGED <<disk, fs, caddy, index, ops, faulted, request, sessions, inflight>>

StoreNext == SaveConfig \/ LoadConfig

StoreSpec == StoreInit /\ [][StoreNext]_vars

----------------------------------------------------------------------------
(* os.WriteFile of saveConfig step by step, with a reader and a crash *)

\* the values of config that are saved here: at most one entry
SavedConfigs == {cfg \in Configs : Len(cfg.Scripts) <= 1}

\* a save on its way: the document being written, the document the file
\* held before, how many of its top-level mappings are written, and where
\* the call stands (a killed process leaves its record behind as "crashed")
Saving(pc, data, prev, written) ==
    [pc |-> pc, data |-> data, prev |-> prev, written |-> written]

\* no save is on its way
Idle == IF inflight = <<>> THEN TRUE ELSE inflight[1].pc = "crashed"

\* saveConfig up to the open of os.WriteFile: the document is marshalled
\* and the file is opened with O_TRUNC, which empties it
WriteFileOpen ==
    /\ Idle
    /\ \E cfg \in SavedConfigs :
          /\ config' = cfg.Scripts
          /\ inflight' = << Saving("write", Marshal(cfg), disk, 0) >>
          /\ request' = Received("", "save", <<>>, cfg)
    /\ disk' = <<>>
    /\ resp' = Reply("save", 0, "", <<>>, <<>>)
    /\ UNCHANGED <<fs, caddy, index, ops, faulted, sessions>>

\* the write of os.WriteFile: the bytes reach the file front to back
WriteFileWrite ==
    /\ ~Idle
    /\ inflight[1].pc = "write"
    /\ LET r == inflight[1]
           n == r.written + 1
       IN  /\ disk' = SubSeq(r.data, 1, n)
           /\ inflight' = << [r EXCEPT !.written = n,
                                       !.pc = IF n = Len(r.data) THEN "close" ELSE "write"] >>
    /\ UNCHANGED <<config, fs, caddy, index, resp, ops, faulted, request, sessions>>

\* the close of os.WriteFile: saveConfig returns
WriteFileClose ==
    /\ ~Idle
    /\ inflight[1].pc = "close"
    /\ inflight' = <<>>
    /\ UNCHANGED <<config, disk, fs, caddy, index, resp, ops, faulted, request, sessions>>

\* another process reads config.yaml while the save is on its way
ReadFile ==
    /\ ~Idle
    /\ resp' = Reply("read", 0, "", <<>>, disk)
    /\ UNCHANGED <<config, disk, fs, caddy, index, ops, faulted, request, sessions, inflight>>

\* the process is killed while the save is on its way and started again:
\* main calls loadConfig on the file as it is
CrashAndRestart ==
    /\ ~Idle
    /\ inflight' = << [inflight[1] EXCEPT !.pc = "crashed"] >>
    /\ config' = Unmarshal(disk).Scripts
    /\ resp' = Reply("load", 0, "", <<>>, Unmarshal(disk))
    /\ UNCHANGED <<disk, fs, caddy, index, ops, faulted, request, sessions>>

CrashNext ==
    WriteFileOpen \/ WriteFileWrite \/ WriteFileClose \/ ReadFile \/ CrashAndRestart

CrashSpec == StoreInit /\ [][CrashNext]_vars

----------------------------------------------------------------------------
(* The Caddyfile editor with targets that carry the editor's own markers *)

\* targets createScriptAPI accepts (they begin with http://): a plain one,
\* one that ends in the text of the anchor comment, and one that ends in
\* the opening marker of a name
MarkerURLs ==
    { <<"http://", "x">>,
      <<"http://", "x", Anchor>>,
      <<"http://", "x", HandleOpen(<<"a">>)>> }

\* a call of updateCaddyfileRedirect with one of these targets
InstallTarget ==
    /\ ops < MaxEdits
    /\ \E scriptName \in EditorNames, redirectURL \in MarkerURLs :
          LET r == updateCaddyfileRedirect(caddy, scriptName, redirectURL, {})
          IN  /\ caddy' = r.caddy
              /\ resp' = Response("install", IF r.err THEN 500 ELSE 200, EditError(r.err, {}),
                                   scriptName, "", r.attempts, {})
              /\ request' = Received("", "install", scriptName, redirectURL)
    /\ ops' = ops + 1
    /\ UNCHANGED <<config, disk, fs, index, faulted, sessions, inflight>>

\* a call of removeCaddyfileRedirect on the files these installations leave
UninstallTarget ==
    /\ ops < MaxEdits
    /\ \E scriptName \in EditorNames :
          LET r == removeCaddyfileRedirect(caddy, scriptName, {})
          IN  /\ caddy' = r.caddy
              /\ resp' = Response("remove", IF r.err THEN 500 ELSE 200, EditError(r.err, {}),
                                   scriptName, "", 0, {})
              /\ request' = Received("", "remove", scriptName, <<>>)
    /\ ops' = ops + 1
    /\ UNCHANGED <<config, disk, fs, index, faulted, sessions, inflight>>

MarkerNext == InstallTarget \/ UninstallTarget

MarkerSpec == Init /\ [][MarkerNext]_vars

----------------------------------------------------------------------------
(* The Caddyfile calls of one handler, call by call, each failing or not *)

\* bodies of the updates here: nothing but a description, a new kind, a
\* new target, both
ReloadUpdates ==
    {u \in PartialBodies : u.Description = "d2" /\ u.Icon = ""}

\* a handler at its Caddyfile calls: which of the three calls it will make
\* (removeCaddyfileRedirect, updateCaddyfileRedirect, reloadCaddy), where
\* it stands, and whether a write that changed the file has had no reload
\* posted after it yet
Editing(kind, name, url, removeOld, addNew, reload, pc) ==
    [kind |-> kind, name |-> name, url |-> url, removeOld |-> removeOld,
     addNew |-> addNew, reload |-> reload, pc |-> pc, unsent |-> FALSE]

\* where a handler goes after updateCaddyfileRedirect, or when it skips it
AfterInstall(r) == IF r.reload THEN "reload" ELSE "done"

\* where a handler goes after removeCaddyfileRedirect, or when it skips it
AfterRemove(r) == IF r.addNew THEN "install" ELSE AfterInstall(r)

\* the first Caddyfile call of a handler
FirstCall(r) ==
    [r EXCEPT !.pc = IF r.removeOld THEN "remove" ELSE AfterRemove(r)]

\* no handler is running
Returned == IF inflight = <<>> THEN TRUE ELSE inflight[1].pc = "done"

\* createScriptAPI with a redirect body of a name the catalog does not
\* list, up to its call of updateCaddyfileRedirect (the entry is appended
\* when the handler returns; the catalog calls are taken to succeed)
StartCreate ==
    /\ ops < MaxEdits /\ Returned
    /\ \E name \in EditorNames :
          LET script == RedirectEntry(name, "d1", <<"http://", "x">>)
          IN  /\ Find(config, name) = 0
              /\ config' = Append(config, script)
              /\ inflight' = << FirstCall(Editing("create", name, script.RedirectURL,
                                                  FALSE, TRUE, FALSE, "start")) >>
              /\ request' = Received("", "create", name, script)
    /\ ops' = ops + 1
    /\ UNCHANGED <<disk, fs, caddy, index, resp, faulted, sessions>>

\* updateScriptAPI up to its Caddyfile calls: the fields are applied and
\* the three conditions on the old and the new entry are taken
StartUpdate ==
    /\ ops < MaxEdits /\ Returned
    /\ \E name \in EditorNames, updates \in ReloadUpdates :
          LET i == Find(config, name)
              cfg == [config EXCEPT ![i] = ApplyUpdates(config[i], updates)]
              oldType == config[i].Type
              removeOld == oldType = "redirect"
                             /\ (updates.Type # "redirect"
                                   \/ updates.RedirectURL # config[i].RedirectURL)
              addNew == cfg[i].Type = "redirect" /\ cfg[i].RedirectURL # <<>>
              reload == (oldType = "redirect" \/ cfg[i].Type = "redirect")
                          /\ (updates.RedirectURL # <<>> \/ updates.Type # "")
          IN  /\ i # 0
              /\ config' = cfg
              /\ inflight' = << FirstCall(Editing("update", name, cfg[i].RedirectURL,
                                                  removeOld, addNew, reload, "start")) >>
              /\ request' = Received("", "update", name, updates)
    /\ ops' = ops + 1
    /\ UNCHANGED <<disk, fs, caddy, index, resp, faulted, sessions>>

\* deleteScriptAPI up to its Caddyfile calls: a redirect entry has its
\* block removed and the proxy reloaded
StartDelete ==
    /\ ops < MaxEdits /\ Returned
    /\ \E name \in EditorNames :
          LET i == Find(config, name)
              redirect == config[i].Type = "redirect"
          IN  /\ i # 0
              /\ config' = RemoveAt(config, i)
              /\ inflight' = << FirstCall(Editing("delete", name, <<>>,
                                                  redirect, FALSE, redirect, "start")) >>
              /\ request' = Received("", "delete", name, <<>>)
    /\ ops' = ops + 1
    /\ UNCHANGED <<disk, fs, caddy, index, resp, faulted, sessions>>

\* removeCaddyfileRedirect: the read or the write fails, or the file is
\* written without the block; the handlers log its error and go on
CallRemove ==
    /\ ~Returned
    /\ inflight[1].pc = "remove"
    /\ \E F \in Failing({"caddyRead", "caddyWrite"}) :
          LET r == inflight[1]
              e == removeCaddyfileRedirect(caddy, r.name, F)
          IN  /\ caddy' = e.caddy
              /\ inflight' = << [r EXCEPT !.pc = AfterRemove(r),
                                          !.unsent = @ \/ e.caddy # caddy] >>
              /\ faulted' = (faulted \/ F # {})
    /\ UNCHANGED <<config, disk, fs, index, resp, ops, request, sessions>>

\* updateCaddyfileRedirect up to its write: the read or the write fails
\* and it returns the error, or the file is written with the new block and
\* it goes on to reloadCaddy
CallInstall ==
    /\ ~Returned
    /\ inflight[1].pc = "install"
    /\ \E F \in Failing({"caddyRead", "caddyWrite"}) :
          LET r == inflight[1]
              e == updateCaddyfileRedirect(caddy, r.name, r.url, F)
          IN  /\ caddy' = e.caddy
              /\ inflight' = << [r EXCEPT !.pc = IF F = {} THEN "installReload"
                                                 ELSE AfterInstall(r),
                                          !.unsent = @ \/ e.caddy # caddy] >>
              /\ faulted' = (faulted \/ F # {})
    /\ UNCHANGED <<config, disk, fs, index, resp, ops, request, sessions>>

\* reloadCaddy, at the end of updateCaddyfileRedirect or called by the
\* handler: the file is read and posted as it stands, the proxy accepts it
\* or not
CallReload ==
    /\ ~Returned
    /\ inflight[1].pc \in {"installReload", "reload"}
    /\ \E F \in Failing({"reload"}) :
          LET r == inflight[1]
          IN  /\ inflight' = << [r EXCEPT !.pc = IF r.pc = "installReload"
                                                 THEN AfterInstall(r) ELSE "done",
                                          !.unsent = FALSE] >>
              /\ resp' = Response(r.kind, 0, "", r.name, "", reloadCaddy(F).attempts, F)
              /\ faulted' = (faulted \/ F # {})
    /\ UNCHANGED <<config, disk, fs, caddy, index, ops, request, sessions>>

ReloadNext ==
    StartCreate \/ StartUpdate \/ StartDelete \/ CallRemove \/ CallInstall \/ CallReload

ReloadSpec == LoadedInit /\ [][ReloadNext]_vars

----------------------------------------------------------------------------
(* Claims *)

\* the names create can store
StoredNames == {SanitizeName(name) : name \in RawNames \ {<<>>}}

NoDuplicateNames(scripts) ==
    \A i, j \in 1..Len(scripts) : scripts[i].Name = scripts[j].Name => i = j

RedirectListed(scripts, name) ==
    \E i \in 1..Len(scripts) : scripts[i].Name = name /\ scripts[i].Type = "redirect"

\* a request has been served and no I/O call has failed so far
ServedWithoutFailure == resp.op # "start" /\ ~faulted

\* C1: after any sequence of create, update and delete no two entries of
\* the catalog, in memory or persisted, share a name; a create whose
\* sanitized name is the name of an entry gets 409 and leaves the catalog
\* as it was.
C1_UniqueNames ==
    [][/\ NoDuplicateNames(config')
       /\ NoDuplicateNames(disk')
       /\ (resp'.op = "create" /\ resp'.err # "required" /\ Find(config, resp'.name) # 0)
            => (resp'.status = 409 /\ config' = config /\ disk' = disk)]_vars

\* a create was refused as a duplicate of a listed entry
C1_Witness ==
    /\ resp.op = "create"
    /\ resp.status = 409
    /\ Find(config, resp.name) # 0

\* C2: once a request has completed without I/O failure, the Caddyfile
\* holds exactly one route block for every name listed as a redirect and
\* none for any other name.
C2_OneBlockPerRedirect ==
    ServedWithoutFailure =>
        \A name \in StoredNames :
            Blocks(caddy, name) = (IF RedirectListed(config, name) THEN 1 ELSE 0)

\* C3: once a request has completed, every local entry of the catalog has an
\* object at its published route path that resolves to a readable file.
C3_LocalIsReadable ==
    resp.op # "start" =>
        \A i \in 1..Len(config) :
            config[i].Type = "local" =>
                /\ symlinkPath(config[i].Name) \in DOMAIN fs
                /\ Readable(fs, symlinkPath(config[i].Name))

\* C4: after a successful create, update or delete the landing page is the
\* page generated from the catalog as the request left it.
C4_LandingPageCurrent ==
    (ServedWithoutFailure /\ resp.status = 200) => index = generateIndexHTML(config)

\* C5: a create whose materialization fails (script file, link or route
\* block) returns an error and adds nothing to the catalog in memory or on
\* disk; a create that does add an entry has linked its file or installed
\* its route block first.
C5_MaterializeBeforeCommit ==
    [][/\ (resp'.op = "create" /\ resp'.err \in {"file", "link", "redirect"})
            => /\ resp'.status = 500
               /\ config' = config
               /\ disk' = disk
               /\ Find(config', resp'.name) = 0
       /\ (resp'.op = "create" /\ config' # config)
            => LET script == config'[Len(config')]
               IN  /\ script.Type = "local" =>
                         /\ symlinkPath(script.Name) \in DOMAIN fs'
                         /\ fs'[symlinkPath(script.Name)] = Link(script.ScriptPath)
                   /\ script.Type = "redirect" => Blocks(caddy', script.Name) = 1]_vars

\* a create failed at its route block
C5_Witness ==
    /\ resp.op = "create"
    /\ resp.status = 500
    /\ resp.err = "redirect"

\* C6: a create refused by validation (400 or 409) has had no side effect:
\* catalog, persisted catalog, filesystem, Caddyfile and landing page are
\* as before and no reload was posted.
C6_RejectBeforeSideEffect ==
    [][(resp'.op = "create" /\ resp'.status \in {400, 409})
          => /\ UNCHANGED <<config, disk, fs, caddy, index>>
             /\ resp'.reloads = 0]_vars

\* a create was refused for its target's scheme while the catalog listed an
\* entry
C6_Witness ==
    /\ resp.op = "create"
    /\ resp.status = 400
    /\ resp.err = "url scheme"
    /\ Len(config) > 0

\* C7: after every request, failed or not, the catalog in memory is the
\* catalog on disk.
C7_MemoryEqualsDisk == config = disk

\* C8: a request whose posted reload failed still succeeds.
C8_ReloadFailureNotFatal == resp.reloadFailed => resp.status = 200

\* C9: a successful update that turns a redirect entry into a local one
\* leaves no route block for the name and a link at its published route
\* path that resolves to a readable file.
C9_RedirectToLocal ==
    (/\ ServedWithoutFailure
     /\ resp.op = "update" /\ resp.status = 200 /\ resp.oldType = "redirect"
     /\ config[Find(config, resp.name)].Type = "local")
        => /\ Blocks(caddy, resp.name) = 0
           /\ symlinkPath(resp.name) \in DOMAIN fs
           /\ fs[symlinkPath(resp.name)].k = "symlink"
           /\ Readable(fs, symlinkPath(resp.name))

\* C10: a successful update that turns a local entry into a redirect leaves
\* no link at its published route path and exactly one route block for the
\* name.
C10_LocalToRedirect ==
    (/\ ServedWithoutFailure
     /\ resp.op = "update" /\ resp.status = 200 /\ resp.oldType = "local"
     /\ config[Find(config, resp.name)].Type = "redirect")
        => /\ symlinkPath(resp.name) \notin DOMAIN fs
           /\ Blocks(caddy, resp.name) = 1

\* C11: a successful update of entry n sets each of description, icon,
\* type and target to the request's value when that value is non-empty and
\* leaves it alone otherwise; name, path and script path of n, the number
\* and order of entries and every other entry stay as they were.
C11_PartialUpdate ==
    [][(request'.route = "update" /\ resp'.op = "update" /\ resp'.status = 200)
          => LET i == Find(config, request'.name)
                 u == request'.body
                 old == config[i]
                 new == config'[i]
             IN  /\ Len(config') = Len(config)
                 /\ \A j \in 1..Len(config) : j # i => config'[j] = config[j]
                 /\ new.Name = old.Name
                 /\ new.Path = old.Path
                 /\ new.ScriptPath = old.ScriptPath
                 /\ new.Description = (IF u.Description # "" THEN u.Description ELSE old.Description)
                 /\ new.Icon = (IF u.Icon # "" THEN u.Icon ELSE old.Icon)
                 /\ new.Type = (IF u.Type # "" THEN u.Type ELSE old.Type)
                 /\ new.RedirectURL = (IF u.RedirectURL # <<>> THEN u.RedirectURL
                                       ELSE old.RedirectURL)]_vars

\* an update that carried a description and no icon succeeded on the second
\* of two entries
C11_Witness ==
    /\ request.route = "update"
    /\ resp.status = 200
    /\ request.body.Description = "d2"
    /\ request.body.Icon = ""
    /\ Len(config) = 2
    /\ Find(config, request.name) = 2
    /\ config[2].Description = "d2"
    /\ config[2].Icon = DefaultIcon

\* C12: an update or delete addressed to a name the catalog does not list
\* answers 404 and changes nothing: catalog, persisted catalog, filesystem,
\* Caddyfile and landing page are as before, and no reload is posted.
C12_NotFoundChangesNothing ==
    [][(resp'.op \in {"update", "delete"} /\ resp'.status = 404)
          => /\ UNCHANGED <<config, disk, fs, caddy, index>>
             /\ resp'.reloads = 0]_vars

\* the targets of the route blocks of a name, in file order
Targets(cad, scriptName) ==
    {cad[i + 2].u : i \in {j \in 1..(Len(cad) - 2) : cad[j] = HandleOpen(scriptName)}}

\* C13: an update that gives an existing redirect entry a new target
\* removes the old route block, leaves exactly one block for the name,
\* carrying the new target, and posts the reload exactly once.
C13_RetargetReloadsOnce ==
    [][LET i == Find(config, request'.name)
       IN  (/\ request'.route = "update" /\ resp'.op = "update" /\ resp'.status = 200
            /\ i # 0
            /\ config[i].Type = "redirect"
            /\ request'.body.Type \in {"", "redirect"}
            /\ request'.body.RedirectURL # <<>>
            /\ request'.body.RedirectURL # config[i].RedirectURL
            /\ Targets(caddy, request'.name) = {config[i].RedirectURL})
              => /\ Blocks(caddy', request'.name) = 1
                 /\ Targets(caddy', request'.name) = {request'.body.RedirectURL}
                 /\ resp'.reloads = 1]_vars

\* C14: an installation that writes the file puts the block of the name
\* immediately before the anchor when the file has one, leaving the anchor
\* and everything after it as it was, and posts a reload; without the
\* anchor the block goes to the end of the file and the installation fails
\* for no reason other than the reload.
C14_BlockBeforeAnchor ==
    [][(request'.route = "install" /\ resp'.err \in {"", "reload"})
          => LET block == redirectBlock(request'.name, request'.body)
                 before == Index(caddy, <<Anchor>>)
                 after == Index(caddy', <<Anchor>>)
             IN  /\ resp'.reloads = 1
                 /\ before # 0 =>
                       /\ after > Len(block)
                       /\ SubSeq(caddy', after - Len(block), after - 1) = block
                       /\ SubSeq(caddy', after, Len(caddy')) = SubSeq(caddy, before, Len(caddy))
                 /\ before = 0 =>
                       /\ after = 0
                       /\ Len(caddy') >= Len(block)
                       /\ SubSeq(caddy', Len(caddy') - Len(block) + 1, Len(caddy')) = block
                       /\ (resp'.status = 200 \/ resp'.reloadFailed)]_vars

\* a block was installed, without failure, into a file that has no anchor
\* and already held a block
C14_Witness ==
    /\ request.route = "install"
    /\ resp.status = 200
    /\ Index(caddy, <<Anchor>>) = 0
    /\ Blocks(caddy, <<"a">>) + Blocks(caddy, <<"a", "_">>) = 2

C15_DeleteRemovesGenerated ==
    [][LET i == Find(config, request'.name)
       IN  (/\ request'.route = "delete" /\ resp'.op = "delete" /\ resp'.status = 200
            /\ i # 0
            /\ config[i].Type = "local"
            /\ config[i].ScriptPath = scriptFile(config[i].Name)
            /\ scriptFile(config[i].Name) \in DOMAIN fs)
              => /\ symlinkPath(config[i].Name) \notin DOMAIN fs'
                 /\ scriptDir(config[i].Name) \notin DOMAIN fs'
                 /\ scriptFile(config[i].Name) \notin DOMAIN fs']_vars

\* the files the operator had before the service touched anything
OperatorFiles == { ExistingFile, NamedFile, OutsideFile }

\* C16: a successful delete of a local entry that was created with a
\* selected file removes the link at the published route path and nothing
\* else; the selected file is there afterwards with the content it had
\* before the service started.
C16_SelectedFileKept ==
    [][LET i == Find(config, resp'.name)
       IN  (/\ resp'.op = "delete" /\ resp'.status = 200
            /\ i # 0
            /\ config[i].Type = "local"
            /\ config[i].ScriptPath \in OperatorFiles)
              => /\ symlinkPath(config[i].Name) \notin DOMAIN fs'
                 /\ config[i].ScriptPath \in DOMAIN fs'
                 /\ fs'[config[i].ScriptPath] = InitFS[config[i].ScriptPath]
                 /\ \A p \in DOMAIN fs \ {symlinkPath(config[i].Name)} :
                        p \in DOMAIN fs' /\ fs'[p] = fs[p]]_vars

\* C18: of two creates handled together whose names sanitize to the same
\* name at most one succeeds, and the catalog never lists the name twice.
C18_OneCreateWins ==
    /\ NoDuplicateNames(config)
    /\ \A p, q \in 1..MaxInflight :
          (/\ p # q
           /\ inflight[p].kind = "create" /\ inflight[q].kind = "create"
           /\ SanitizeName(inflight[p].orig) = SanitizeName(inflight[q].orig)
           /\ inflight[p].pc = "done" /\ inflight[q].pc = "done")
             => ~(inflight[p].status = 200 /\ inflight[q].status = 200)

AdminRoutes ==
    { "GET /admin", "GET /admin/scripts", "POST /admin/scripts", "PUT /admin/scripts/:name",
      "DELETE /admin/scripts/:name", "GET /admin/scripts/:name/content",
      "PUT /admin/scripts/:name/content", "POST /admin/index-page", "GET /admin/index-page",
      "GET /admin/browse-files", "GET /admin/browse" }

\* C20: a request to an admin route runs its handler only when its session
\* is authenticated, and a session is authenticated only by a login with
\* the admin's name and password; a request of any other session is
\* redirected, is handed no data, and leaves catalog, persisted catalog,
\* files, Caddyfile and landing page as they were.
C20_AdminBehindLogin ==
    [][/\ (ops' # ops /\ request'.route \in AdminRoutes)
            => IF sessions[request'.session]
               THEN resp'.op # "redirect"
               ELSE /\ resp'.op = "redirect"
                    /\ resp'.status = 302
                    /\ resp'.data = <<>>
                    /\ UNCHANGED <<config, disk, fs, caddy, index>>
       /\ \A s \in Sessions :
             (sessions'[s] /\ ~sessions[s])
                => /\ request' = Received(s, "login", <<>>, <<AdminUsername, "secret">>)
                   /\ resp'.op = "login"]_vars

\* a request of a session that never logged in was redirected while
\* another session was logged in and the catalog listed an entry
C20_Witness ==
    /\ request.route \in AdminRoutes
    /\ resp.op = "redirect"
    /\ ~sessions[request.session]
    /\ \E s \in Sessions : sessions[s]
    /\ Len(config) > 0

\* C21: get-content on a local entry that create made without a selected
\* file answers 200 with the script create wrote for the entry (or what a
\* put-content wrote over it): the content of <name>_dir/<name>.sh, which
\* is the file the published route path serves.
C21_ContentOfCreatedScript ==
    LET i == Find(config, resp.name)
    IN  (/\ resp.op = "getContent"
         /\ i # 0
         /\ config[i].Type = "local"
         /\ config[i].ScriptPath = scriptFile(resp.name)
         /\ Readable(fs, symlinkPath(resp.name)))
          => /\ resp.status = 200
             /\ resp.data = <<fs[Resolve(fs, symlinkPath(resp.name))].c>>

\* what the normalization of a name is, character by character: a space, a
\* hyphen or a dot becomes an underscore, a letter its lower case
Normalized(name) ==
    [k \in 1..Len(name) |->
        IF name[k] \in {" ", "-", "."} THEN "_"
        ELSE IF name[k] = "A" THEN "a"
        ELSE name[k]]

\* C22: a successful create stores the normalization of the requested name,
\* which is non-empty and has no upper-case letter, space, hyphen or dot;
\* a create whose requested name normalizes to a stored name is refused
\* with 409, however it is spelled.
C22_StoredNameIsNormalized ==
    [][(request'.route = "create" /\ resp'.op = "create")
          => LET raw == request'.body.Name
             IN  /\ resp'.status = 200 =>
                       /\ Len(config') = Len(config) + 1
                       /\ config'[Len(config')].Name = Normalized(raw)
                       /\ config'[Len(config')].Name # <<>>
                       /\ \A k \in 1..Len(raw) :
                             config'[Len(config')].Name[k] \notin {"A", " ", "-", "."}
                 /\ (\E i \in 1..Len(config) : config[i].Name = Normalized(raw))
                       => (resp'.status = 409 /\ config' = config)]_vars

\* a create was refused as a duplicate although no entry is spelled as the
\* request spelled its name
C22_Witness ==
    /\ request.route = "create"
    /\ resp.status = 409
    /\ Len(config) = 1
    /\ config[1].Name # request.body.Name
    /\ request.body.Name = <<"A", ".">>


\* C23: the Config that loadConfig reads from the file saveConfig wrote is
\* the Config that was saved: the same admin credentials and the same
\* entries in the same order with every field equal, the empty catalog
\* included.
C23_SaveThenLoad ==
    resp.op = "load" => (resp.data = request.body /\ config = request.body.Scripts)

\* a catalog of a local entry without script_path and a redirect entry was
\* saved and loaded
C23_Witness ==
    /\ resp.op = "load"
    /\ Len(config) = 2
    /\ config[1].Type = "redirect" /\ config[1].ScriptPath = <<>>
    /\ config[2].Type = "local" /\ config[2].ScriptPath = <<>>
    /\ resp.data.Admin.Username = "root"


\* the list a request that rewrites the landing page generates it from: the
\* body of POST /admin/index-page, the catalog for a create
PageSource ==
    IF resp.op = "postIndex" THEN request.body ELSE config

\* C24: the landing page a request wrote is determined by the list of
\* entries it was generated from and by nothing else: it has one row per
\* entry, in the order of the list, showing that entry's icon, name and
\* description, whatever the catalog, the files and the sessions are.
C24_PageFromEntriesOnly ==
    (resp.op \in {"postIndex", "create"} /\ resp.status = 200)
       => /\ Len(index.rows) = Len(PageSource)
          /\ \A i \in 1..Len(PageSource) :
                /\ index.rows[i].emoji = PageSource[i].Icon
                /\ index.rows[i].dataScript = PageSource[i].Name
                /\ index.rows[i].label = PageSource[i].Name
                /\ index.rows[i].text = PageSource[i].Description
          /\ index.template = "Script Server"

\* the page was generated from a list of two entries while the catalog held
\* another entry
C24_Witness ==
    /\ resp.op = "postIndex"
    /\ resp.status = 200
    /\ Len(request.body) = 2
    /\ Len(config) = 1
    /\ index.rows[1].emoji = "i2"
    /\ index.rows[2].emoji = DefaultIcon


\* C25: every entry of the catalog has kind local or kind redirect.
C25_KindIsLocalOrRedirect ==
    \A i \in 1..Len(config) : config[i].Type \in {"local", "redirect"}

\* C26: every entry of kind redirect has a target, and the target begins
\* with http:// or https://.
C26_RedirectHasHttpTarget ==
    \A i \in 1..Len(config) :
        config[i].Type = "redirect"
           => /\ config[i].RedirectURL # <<>>
              /\ config[i].RedirectURL[1] \in {"http://", "https://"}


\* C27: what a reader of config.yaml sees while a save is on its way is the
\* complete document the file held before or the complete new document, and
\* a process restarted after a crash in the middle of the save loads one of
\* these two catalogs.
C27_AtomicSave ==
    inflight # <<>> =>
        LET s == inflight[1]
        IN  /\ resp.op = "read" => resp.data \in {s.prev, s.data}
            /\ resp.op = "load" => resp.data \in {Unmarshal(s.prev), Unmarshal(s.data)}


\* C28: an installation that repeats the installation before it, with the
\* same name and the same target, leaves the Caddyfile as the first one
\* left it, with exactly one block for the name.
C28_InstallTwice ==
    [][(/\ request.route = "install" /\ resp.err \in {"", "reload"}
        /\ request'.route = "install" /\ resp'.err \in {"", "reload"}
        /\ request'.name = request.name
        /\ request'.body = request.body)
          => /\ caddy' = caddy
             /\ Blocks(caddy', request'.name) = 1]_vars

\* the part of C28 that holds: after an installation that wrote the file
\* there is exactly one block for the name
C28_OneBlockAfterInstall ==
    [][(request'.route = "install" /\ resp'.err \in {"", "reload"})
          => Blocks(caddy', request'.name) = 1]_vars


\* where the route blocks of a name begin: its opening marker at the start
\* of a line (not inside the redir line of another block)
BlockStarts(cad, scriptName) ==
    {i \in 1..Len(cad) : cad[i] = HandleOpen(scriptName) /\ (i = 1 \/ cad[i - 1].t # "redir")}

\* the route blocks of a name as the proxy reads them: from the opening
\* marker through the first closing brace
BlockTexts(cad, scriptName) ==
    {SubSeq(cad, i, i + Index(SubSeq(cad, i, Len(cad)), <<CloseNL>>) - 1) :
        i \in BlockStarts(cad, scriptName)}

\* C29: installing or removing the route block of a name leaves the route
\* blocks of every other name as they were: as many of them, each with the
\* text it had, whatever target accepted by create the blocks carry.
C29_OtherBlocksUntouched ==
    [][(request'.route \in {"install", "remove"})
          => \A other \in EditorNames \ {request'.name} :
                /\ Cardinality(BlockStarts(caddy', other)) = Cardinality(BlockStarts(caddy, other))
                /\ BlockTexts(caddy', other) = BlockTexts(caddy, other)]_vars


\* C30: an update that changes neither the kind nor the target of its entry
\* leaves the Caddyfile as it was and posts no reload.
C30_UnrelatedUpdateKeepsCaddyfile ==
    [][LET i == Find(config, request'.name)
       IN  (/\ request'.route = "update" /\ resp'.op = "update" /\ resp'.status = 200
            /\ i # 0
            /\ request'.body.Type \in {"", config[i].Type}
            /\ request'.body.RedirectURL \in {<<>>, config[i].RedirectURL})
              => /\ caddy' = caddy
                 /\ resp'.reloads = 0]_vars

\* the part of C30 that holds: such an update of a local entry leaves the
\* Caddyfile as it was and posts no reload
C30_LocalUpdateKeepsCaddyfile ==
    [][LET i == Find(config, request'.name)
       IN  (/\ request'.route = "update" /\ resp'.op = "update" /\ resp'.status = 200
            /\ i # 0
            /\ config[i].Type = "local"
            /\ request'.body.Type \in {"", "local"}
            /\ request'.body.RedirectURL = <<>>)
              => /\ caddy' = caddy
                 /\ resp'.reloads = 0]_vars


\* C31: a delete takes the entry out of the catalog and saves before it
\* removes anything else: when the save fails it answers 500 with the link,
\* the directory and the route block of the entry as they were and no
\* reload posted, the entry already gone from the catalog in memory; when
\* it answers 200 the saved catalog is the catalog without the entry.
C31_DeleteSavesFirst ==
    [][LET i == Find(config, request'.name)
       IN  (request'.route = "delete" /\ resp'.op = "delete" /\ i # 0)
              => /\ config' = RemoveAt(config, i)
                 /\ resp'.status \in {200, 500}
                 /\ resp'.status = 500 =>
                       /\ resp'.err = "save"
                       /\ UNCHANGED <<disk, fs, caddy>>
                       /\ resp'.reloads = 0
                 /\ resp'.status = 200 => disk' = config']_vars

\* a delete of the redirect entry failed at the save while its route block
\* was in the Caddyfile and the link of the local entry in place
C31_Witness ==
    /\ request.route = "delete"
    /\ resp.op = "delete"
    /\ resp.status = 500
    /\ resp.oldType = "redirect"
    /\ Blocks(caddy, request.name) = 1
    /\ Find(config, request.name) = 0
    /\ Find(disk, request.name) # 0


\* C32: when a handler returns, every write of the Caddyfile it made that
\* installed or removed a block has been followed by a reload that posted
\* the file as it stood after the write.
C32_WriteThenReload ==
    (inflight # <<>> /\ inflight[1].pc = "done") => ~inflight[1].unsent

\* the part of C32 that holds: the same as long as no call has failed
C32_WriteThenReloadWithoutFailure ==
    (inflight # <<>> /\ inflight[1].pc = "done" /\ ~faulted) => ~inflight[1].unsent


\* C33: an update that found its entry applies its changes to that entry
\* and to no other, and does not index past the end of the catalog,
\* whatever the deletes of other entries that run at the same time do in
\* between.
C33_UpdateHitsItsEntry ==
    [][\A p \in 1..MaxInflight :
          (/\ inflight[p].kind = "update"
           /\ inflight[p].pc = "apply"
           /\ inflight'[p].pc # "apply"
           /\ \A q \in 1..MaxInflight \ {p} :
                 inflight[q].kind = "delete" /\ inflight[q].orig # inflight[p].orig)
             => /\ inflight'[p].status # 500
                /\ Len(config') = Len(config)
                /\ \A k \in 1..Len(config) :
                      config'[k] # config[k] => config[k].Name = inflight[p].orig]_vars


\* C34: a session turns authenticated only in a login of that session with
\* the configured user name and a password the configured hash matches; a
\* login with anything else leaves an unauthenticated session as it is; a
\* logout leaves the session unauthenticated; and an admin request of an
\* unauthenticated session is redirected and does not authenticate it.
C34_LoginLogout ==
    [][\A s \in Sessions :
          LET mine == request'.session = s
              good == /\ request'.body[1] = AdminUsername
                      /\ CompareHashAndPassword(AdminPassword, request'.body[2])
          IN  /\ (sessions'[s] /\ ~sessions[s])
                    => (mine /\ request'.route = "login" /\ good)
              /\ (mine /\ request'.route = "login" /\ ~good /\ ~sessions[s])
                    => (~sessions'[s] /\ resp'.err = "Invalid credentials")
              /\ (mine /\ request'.route = "logout") => ~sessions'[s]
              /\ (mine /\ request'.route \in AdminRoutes /\ ~sessions[s])
                    => (resp'.op = "redirect" /\ ~sessions'[s])]_vars

\* after a login, a create and a logout, an admin request was redirected
\* while no session was authenticated
C34_Witness ==
    /\ request.route \in AdminRoutes
    /\ resp.op = "redirect"
    /\ \A s \in Sessions : ~sessions[s]
    /\ Len(config) > 0


\* the scripts root and what is below it
InSandbox(p) == p # <<>> /\ SubSeq(p, 1, 1) = scriptsPath

\* C35: whatever path a browse request carries, the directory whose entries
\* it lists is the scripts root or a directory below it.
C35_BrowseInsideRoot ==
    (resp.op = "browse" /\ resp.status = 200)
        => /\ InSandbox(Walk(SubSeq(resp.data[2], 1, 1), Tail(resp.data[2])))
           /\ \A q \in resp.data[1] : InSandbox(q)

\* C35: the same for the requests whose path has no ".." and does not begin
\* with the name of a directory next to the root.
C35_PlainPathsInsideRoot ==
    (/\ resp.op = "browse"
     /\ resp.status = 200
     /\ request.body \in {scriptsPath, << <<"/etc">> >>})
        => /\ InSandbox(Walk(SubSeq(resp.data[2], 1, 1), Tail(resp.data[2])))
           /\ \A q \in resp.data[1] : InSandbox(q)


\* the link a successful create of a local entry left at the entry's route
\* path points at the entry's generated script or into the scripts root
CreatedLinkInSandbox ==
    LET i == Find(config, resp.name)
        path == symlinkPath(resp.name)
    IN  (/\ resp.op = "create"
         /\ resp.status = 200
         /\ i # 0
         /\ config[i].Type = "local")
            => /\ path \in DOMAIN fs
               /\ fs[path].k = "symlink"
               /\ \/ fs[path].to = scriptFile(resp.name)
                  \/ InSandbox(fs[path].to)

C36_SandboxedPathsStayInSandbox ==
    (\A k \in 1..Len(config) : config[k].ScriptPath = <<>> \/ InSandbox(config[k].ScriptPath))
        => CreatedLinkInSandbox


\* the file after updateCaddyfileRedirect and then removeCaddyfileRedirect
\* for the same name, no call failing
InstalledThenRemoved(cad, scriptName, redirectURL) ==
    removeCaddyfileRedirect(updateCaddyfileRedirect(cad, scriptName, redirectURL, {}).caddy,
                            scriptName, {}).caddy

\* C37: installing a route block for a name that has none and then
\* removing it gives back the Caddyfile as it was, token for token.
C37_InstallThenRemoveRestores ==
    \A scriptName \in EditorNames, redirectURL \in EditorURLs :
        Blocks(caddy, scriptName) = 0
            => InstalledThenRemoved(caddy, scriptName, redirectURL) = caddy

\* C37: what installing and then removing gives back is the Caddyfile as it
\* was with one "\n" more where the block had been inserted.
C37_InstallThenRemoveLeavesNewline ==
    \A scriptName \in EditorNames, redirectURL \in EditorURLs :
        Blocks(caddy, scriptName) = 0
            => LET found == Index(caddy, <<Anchor>>)
                   insertPoint == IF found = 0 THEN Len(caddy) + 1 ELSE found
               IN  InstalledThenRemoved(caddy, scriptName, redirectURL)
                     = SubSeq(caddy, 1, insertPoint - 1) \o <<NL>>
                         \o SubSeq(caddy, insertPoint, Len(caddy))


\* C38: in every state the requests can reach, the landing page is
\* generateIndexHTML of the catalog.
C38_PageIsOfCatalog == index = generateIndexHTML(config)

\* C38: the landing page is generateIndexHTML of the catalog after startup
\* and after every successful create.
C38_PageIsOfCatalogAfterCreate ==
    (resp.op = "start" \/ (resp.op = "create" /\ resp.status = 200))
        => index = generateIndexHTML(config)


\* C39: a successful create of a local entry that names no file writes the
\* default script of the entry (the shebang line, the entry's description
\* and the name as the request spelled it) to <name>_dir/<name>.sh under
\* the stored name, links the route path of the stored name to that file,
\* and records that file as the entry's script path.
C39_DefaultScript ==
    [][(/\ request'.route = "create"
        /\ resp'.op = "create"
        /\ resp'.status = 200
        /\ request'.body.Type = "local"
        /\ request'.body.ScriptPath = <<>>)
          => LET script == config'[Len(config')]
                 file == scriptFile(script.Name)
                 path == symlinkPath(script.Name)
             IN  /\ script.Name = Normalized(request'.body.Name)
                 /\ file \in DOMAIN fs'
                 /\ fs'[file].k = "file"
                 /\ fs'[file].c.shebang
                 /\ fs'[file].c.desc = request'.body.Description
                 /\ fs'[file].c.name = request'.body.Name
                 /\ path \in DOMAIN fs'
                 /\ fs'[path].k = "symlink"
                 /\ fs'[path].to = file
                 /\ script.ScriptPath = file]_vars

\* a local entry was created under a name the request spelled with an
\* upper-case letter and a dot, and its default script carries that spelling
C39_Witness ==
    /\ request.route = "create"
    /\ resp.op = "create"
    /\ resp.status = 200
    /\ request.body.Type = "local"
    /\ request.body.Name = <<"A", ".">>
    /\ Len(config) > 0
    /\ config[Len(config)].Name = <<"a", "_">>
    /\ scriptFile(<<"a", "_">>) \in DOMAIN fs
    /\ fs[scriptFile(<<"a", "_">>)].c.name = <<"A", ".">>

====
